---- MODULE Spec2Model ----
(***************************************************************************)
(* Model of the area server's query engine (src/db/queries.ts) and of the  *)
(* geometry primitives it uses (src/lib/geo.ts).                           *)
(*                                                                         *)
(* Coordinates.  The code works on WGS84 degrees and floating point.  The  *)
(* model works on a local tangent plane around the query point, in         *)
(* HALF-METRES: a point is [lat |-> north offset, lng |-> east offset],    *)
(* both integers.  haversineDistance is the Euclidean distance on that     *)
(* plane; it is never materialised as a real number: the model keeps its   *)
(* square (haversineSq) for exact comparisons and Math.round(distance) in  *)
(* whole metres (roundedMeters) for the distance_meters field.  Half-metre *)
(* resolution keeps apart distances that round to the same metre.          *)
(* Bearings are kept in HALF-DEGREES (0..719), which represents the sector *)
(* boundaries 22.5 + 45k exactly.                                          *)
(*                                                                         *)
(* The stored database (tables areas and areas_rtree joined on id) is an   *)
(* input of the serving process (DB_PATH, src/index.ts:33-55): the model   *)
(* draws it from a fixed universe of rows.                                 *)
(***************************************************************************)
EXTENDS Integers, Sequences, FiniteSets, TLC

----------------------------------------------------------------------------
(* Bounds of the model *)

MaxRows == 3

MaxLimit == 2

----------------------------------------------------------------------------
(* Program constants *)

\* src/db/queries.ts:236  r.distance_meters < 500
ContainingMaxMeters == 500

\* src/db/queries.ts:246  findAreasNearby(db, lat, lng, 1000, limit)
ContainingFallbackRadius == 1000

\* src/db/queries.ts:495  findAreasNearby(db, lat, lng, 2000, 5)
CenterLookupRadius == 2000

\* src/db/queries.ts:495  findAreasNearby(db, lat, lng, 2000, 5)
CenterLookupLimit == 5

\* src/db/queries.ts:533  limit * 3
AdjacentRawFactor == 3

\* src/db/queries.ts:551  roundBearingToSector(bearing, 8)
AdjacentSectors == 8

\* src/lib/geo.ts:94  metres per degree used by boundingBoxFromRadius
BBoxMetersPerDegree == 111320

\* src/lib/geo.ts:18  EARTH_RADIUS_METERS * pi / 180, metres per degree of
\* the haversine distance (6371008.8 * 0.0174532925... = 111195.08)
HaversineMetersPerDegree == 111195

Null == "null"

----------------------------------------------------------------------------
(* Arithmetic helpers *)

Min(a, b) == IF a <= b THEN a ELSE b

RECURSIVE ISqrtIn(_, _, _)
\* floor of the square root of s, by bisection on lo..hi (lo*lo <= s)
ISqrtIn(s, lo, hi) ==
  IF lo >= hi THEN lo
  ELSE LET mid == (lo + hi + 1) \div 2
       IN  IF mid * mid <= s THEN ISqrtIn(s, mid, hi)
                             ELSE ISqrtIn(s, lo, mid - 1)

ISqrt(s) == ISqrtIn(s, 0, 46340)

----------------------------------------------------------------------------
(* src/lib/geo.ts : distance, bounding box, bearing, sector *)

\* square of haversineDistance(p1, p2), in half-metres squared
haversineSq(p1, p2) ==
  (p2.lat - p1.lat) * (p2.lat - p1.lat) + (p2.lng - p1.lng) * (p2.lng - p1.lng)

\* distance <= radiusMeters, decided on the unrounded distance
withinRadius(p1, p2, radiusMeters) ==
  haversineSq(p1, p2) <= (2 * radiusMeters) * (2 * radiusMeters)

\* Math.round(haversineDistance(p1, p2)) in metres: floor(d + 0.5) with
\* d = sqrt(haversineSq) / 2
roundedMeters(p1, p2) == (ISqrt(haversineSq(p1, p2)) + 1) \div 2

\* boundingBoxFromRadius: the half-extent is radius / 111320 degrees, which
\* is radius * 111195 / 111320 metres of haversine distance, on both axes
boundingBoxFromRadius(center, radiusMeters) ==
  LET delta == (2 * radiusMeters * HaversineMetersPerDegree)
                 \div BBoxMetersPerDegree
  IN  [minLat |-> center.lat - delta, maxLat |-> center.lat + delta,
       minLng |-> center.lng - delta, maxLng |-> center.lng + delta]

\* 10000 * tan(k / 2 degrees) for k = 0 .. 90 (entry k + 1)
TanTable ==
  << 0, 87, 175, 262, 349, 437, 524, 612, 699, 787, 875, 963, 1051, 1139,
     1228, 1317, 1405, 1495, 1584, 1673, 1763, 1853, 1944, 2035, 2126, 2217,
     2309, 2401, 2493, 2586, 2679, 2773, 2867, 2962, 3057, 3153, 3249, 3346,
     3443, 3541, 3640, 3739, 3839, 3939, 4040, 4142, 4245, 4348, 4452, 4557,
     4663, 4770, 4877, 4986, 5095, 5206, 5317, 5430, 5543, 5658, 5774, 5890,
     6009, 6128, 6249, 6371, 6494, 6619, 6745, 6873, 7002, 7133, 7265, 7400,
     7536, 7673, 7813, 7954, 8098, 8243, 8391, 8541, 8693, 8847, 9004, 9163,
     9325, 9490, 9657, 9827, 10000 >>

\* floor(2 * atan(a / b) in degrees) for 0 <= a <= b, b > 0
AtanLow(a, b) ==
  CHOOSE k \in 0..90 :
    /\ TanTable[k + 1] * b <= a * 10000
    /\ (k = 90 \/ TanTable[k + 2] * b > a * 10000)

\* floor(2 * atan(a / b) in degrees) for a, b >= 0, not both 0; 0 .. 180
AtanHalfDeg(a, b) ==
  IF b = 0 THEN 180
  ELSE IF a <= b THEN AtanLow(a, b)
  ELSE 179 - AtanLow(b, a)

\* calculateBearing(from, to) in half-degrees, 0 .. 719:
\* (atan2(east, north) * 180 / pi + 360) % 360
calculateBearing(from, to) ==
  LET dE == to.lng - from.lng
      dN == to.lat - from.lat
  IN  IF dE = 0 /\ dN = 0 THEN 0
      ELSE IF dE >= 0 /\ dN > 0 THEN AtanHalfDeg(dE, dN)
      ELSE IF dE > 0 /\ dN <= 0 THEN 180 + AtanHalfDeg(-dN, dE)
      ELSE IF dE <= 0 /\ dN < 0 THEN (360 + AtanHalfDeg(-dE, -dN)) % 720
      ELSE 540 + AtanHalfDeg(dN, -dE)

\* variant of roundBearingToSector: no shift by half a sector
roundBearingDown(bearing, sectors) ==
  LET sectorSize == 720 \div sectors
      sectorIndex == (bearing % 720) \div sectorSize
  IN  ((sectorIndex * sectorSize) % 720) \div 2

\* roundBearingToSector(bearing, sectors); bearing in half-degrees, result
\* in degrees
roundBearingToSector(bearing, sectors) ==
  LET sectorSize == 720 \div sectors
      halfSector == sectorSize \div 2
      adjusted == (bearing + halfSector) % 720
      sectorIndex == adjusted \div sectorSize
  IN  ((sectorIndex * sectorSize) % 720) \div 2

directions == << "N", "NE", "E", "SE", "S", "SW", "W", "NW" >>

\* bearingToCardinal(bearing), bearing in degrees:
\* directions[Math.round(bearing / 45) % 8]
bearingToCardinal(bearing) ==
  LET index == ((2 * bearing + 45) \div 90) % 8
  IN  directions[index + 1]

----------------------------------------------------------------------------
(* src/lib/geo.ts : polygons.  A position is <<lng, lat>>, a ring a        *)
(* sequence of positions, a Polygon's coordinates a sequence of rings      *)
(* (outer first), a MultiPolygon's coordinates a sequence of such.         *)

RECURSIVE checkRingFrom(_, _, _, _, _)
\* the loop of checkRing from index i on (j is the previous index, the last
\* one for the first i); the division of the code is cross-multiplied
checkRingFrom(ring, i, inside, x, y) ==
  IF i > Len(ring) THEN inside
  ELSE LET j  == IF i = 1 THEN Len(ring) ELSE i - 1
           xi == ring[i][1]
           yi == ring[i][2]
           xj == ring[j][1]
           yj == ring[j][2]
           d  == yj - yi
           intersect ==
             /\ (yi > y) # (yj > y)
             /\ IF d > 0 THEN (x - xi) * d < (xj - xi) * (y - yi)
                         ELSE (x - xi) * d > (xj - xi) * (y - yi)
       IN  checkRingFrom(ring, i + 1, IF intersect THEN ~inside ELSE inside,
                         x, y)

\* variant of checkRing: the edge from the last to the first position is
\* not tested
checkRingOpen(ring, point) == checkRingFrom(ring, 2, FALSE, point.lng, point.lat)

checkRing(ring, point) == checkRingFrom(ring, 1, FALSE, point.lng, point.lat)

\* one polygon (a sequence of rings): in the outer ring and in no hole
inPolygonRings(rings, point) ==
  /\ Len(rings) >= 1
  /\ checkRing(rings[1], point)
  /\ \A i \in 2..Len(rings) : ~checkRing(rings[i], point)

\* pointInPolygon: every type other than "Polygon" takes the MultiPolygon
\* branch
pointInPolygon(point, polygon) ==
  IF polygon.type = "Polygon"
  THEN inPolygonRings(polygon.coordinates, point)
  ELSE \E i \in 1..Len(polygon.coordinates) :
         inPolygonRings(polygon.coordinates[i], point)

\* all rings of a geometry
ringsOf(polygon) ==
  IF polygon.type = "Polygon"
  THEN {polygon.coordinates[i] : i \in 1..Len(polygon.coordinates)}
  ELSE UNION {{polygon.coordinates[i][k] :
                 k \in 1..Len(polygon.coordinates[i])} :
              i \in 1..Len(polygon.coordinates)}

SetMin(S) == CHOOSE m \in S : \A n \in S : m <= n

SetMax(S) == CHOOSE m \in S : \A n \in S : m >= n

\* bboxFromPolygon: min / max over the coordinates of all rings
bboxFromPolygon(polygon) ==
  LET lngs == UNION {{r[i][1] : i \in 1..Len(r)} : r \in ringsOf(polygon)}
      lats == UNION {{r[i][2] : i \in 1..Len(r)} : r \in ringsOf(polygon)}
  IN  [minLat |-> SetMin(lats), maxLat |-> SetMax(lats),
       minLng |-> SetMin(lngs), maxLng |-> SetMax(lngs)]

\* the bounding box indexed for an area without bbox: its center point
\* (src/ingest/postal.ts:369-377)
pointBBox(p) ==
  [minLat |-> p.lat, maxLat |-> p.lat, minLng |-> p.lng, maxLng |-> p.lng]

----------------------------------------------------------------------------
(* Stored payloads of the polygon column (TEXT, nullable).  kind "null" is *)
(* SQL NULL; "unparseable" makes JSON.parse throw; "json" parses, to a     *)
(* value of shape "geometry" (type and nested coordinates), "flat" (such   *)
(* as a Point: pointInPolygon finds no ring and answers false) or          *)
(* "object" (no coordinates member, or JSON null: pointInPolygon throws a  *)
(* TypeError).                                                             *)

NoPolygon == [kind |-> "null", shape |-> "none", type |-> "none",
              coordinates |-> << >>]

Unparseable == [kind |-> "unparseable", shape |-> "none", type |-> "none",
                coordinates |-> << >>]

JsonObject == [kind |-> "json", shape |-> "object", type |-> "none",
               coordinates |-> << >>]

JsonPoint == [kind |-> "json", shape |-> "flat", type |-> "Point",
              coordinates |-> << >>]

Geometry(type, coordinates) ==
  [kind |-> "json", shape |-> "geometry", type |-> type,
   coordinates |-> coordinates]

\* a closed square ring, counter-clockwise from the south-west corner
SquareRing(minLng, minLat, maxLng, maxLat) ==
  << <<minLng, minLat>>, <<maxLng, minLat>>, <<maxLng, maxLat>>,
     <<minLng, maxLat>>, <<minLng, minLat>> >>

isMalformed(payload) ==
  payload.kind = "unparseable"
    \/ (payload.kind = "json" /\ payload.shape # "geometry")

----------------------------------------------------------------------------
(* The universe of stored rows.  A row is a row of table areas joined with *)
(* its areas_rtree entry (bbox).  Rows of one area share osm_type, osm_id, *)
(* center and polygon and differ in postal_code.  Offsets are half-metres  *)
(* from the reference point.                                               *)

Pt(lat, lng) == [lat |-> lat, lng |-> lng]

Row(id, osm_type, osm_id, center, polygon, bbox, postal_code) ==
  [id |-> id, osm_type |-> osm_type, osm_id |-> osm_id, center |-> center,
   polygon |-> polygon, bbox |-> bbox, postal_code |-> postal_code]

WideBBox == [minLat |-> -1000, maxLat |-> 1000,
             minLng |-> -1000, maxLng |-> 1000]

\* a large area around the reference point, its centroid 1414 m away
LargePolygon ==
  Geometry("MultiPolygon", << << SquareRing(-200, -200, 4200, 4200) >> >>)

\* a small area around the reference point with a hole just north of it
SmallPolygon ==
  Geometry("Polygon", << SquareRing(-100, -60, 100, 140),
                         SquareRing(-10, 1, 10, 21) >>)

RowUniverse ==
  << \* 1, 2: a point area at the reference point, two postal codes
     Row(1, "node", 1, Pt(0, 0), NoPolygon, pointBBox(Pt(0, 0)), "00100"),
     Row(2, "node", 1, Pt(0, 0), NoPolygon, pointBBox(Pt(0, 0)), "00200"),
     \* 3: another element at the same coordinates, no postal code
     Row(3, "way", 1, Pt(0, 0), NoPolygon, pointBBox(Pt(0, 0)), Null),
     \* 4: 300 m away at bearing 44
     Row(4, "node", 2, Pt(432, 417), NoPolygon, pointBBox(Pt(432, 417)),
         "00100"),
     \* 5: 900 m away at bearing 46
     Row(5, "node", 3, Pt(1250, 1295), NoPolygon, pointBBox(Pt(1250, 1295)),
         "00200"),
     \* 6: large polygon, center at its centroid
     Row(6, "relation", 4, Pt(2000, 2000), LargePolygon,
         bboxFromPolygon(LargePolygon), "00100"),
     \* 7: small polygon with a hole, center at the outer ring's centroid
     Row(7, "way", 5, Pt(40, 0), SmallPolygon, bboxFromPolygon(SmallPolygon),
         Null),
     \* 8: unparseable polygon payload, 200 m north
     Row(8, "way", 6, Pt(400, 0), Unparseable, WideBBox, "00100"),
     \* 9: polygon payload that is JSON but no geometry, 200 m south
     Row(9, "relation", 7, Pt(-400, 0), JsonObject, WideBBox, "00200"),
     \* 10: no polygon but an indexed box, 300 m east
     Row(10, "node", 8, Pt(0, 600), NoPolygon, WideBBox, "00200"),
     \* 11: 6364 m away to the north-west, inside the box of a 5000 m query
     Row(11, "node", 9, Pt(9000, -9000), NoPolygon,
         pointBBox(Pt(9000, -9000)), "00100"),
     \* 12: 1.5 m north
     Row(12, "node", 10, Pt(3, 0), NoPolygon, pointBBox(Pt(3, 0)), "00100"),
     \* 13: polygon payload that is a JSON Point, 100 m west
     Row(13, "way", 11, Pt(0, -200), JsonPoint, WideBBox, Null),
     \* 14: no polygon but an indexed box, 650 m south
     Row(14, "node", 12, Pt(-1300, 0), NoPolygon,
         [minLat |-> -1400, maxLat |-> 100, minLng |-> -100, maxLng |-> 100],
         "00100") >>

RECURSIVE AscSeq(_)
\* the rows of a set of row ids, by ascending id
AscSeq(S) ==
  IF S = {} THEN << >>
  ELSE LET m == SetMin(S) IN << RowUniverse[m] >> \o AscSeq(S \ {m})

Reverse(s) == [i \in 1..Len(s) |-> s[Len(s) + 1 - i]]

\* the stored tables the model starts from: up to MaxRows rows, in either
\* order (the SELECTs have no ORDER BY: the candidate order is the index
\* traversal order)
Databases ==
  LET sets == {S \in SUBSET (1..Len(RowUniverse)) : Cardinality(S) <= MaxRows}
  IN  {AscSeq(S) : S \in sets} \cup {Reverse(AscSeq(S)) : S \in sets}

QueryPoints == {Pt(0, 0), Pt(1, 0)}

Radii == {1000, 5000}

Limits == 1..MaxLimit

----------------------------------------------------------------------------
(* src/db/queries.ts : findAreasNearby *)

\* rowToResult(row, distance); names and labels play no part in the queries
rowToResult(row, distance) ==
  [id |-> row.id, osm_type |-> row.osm_type, osm_id |-> row.osm_id,
   center |-> row.center, postal_code |-> row.postal_code,
   distance_meters |-> distance]

RECURSIVE insertByDistance(_, _)
\* place r after every element whose distance_meters is not greater
insertByDistance(sorted, r) ==
  IF sorted = << >> THEN << r >>
  ELSE IF r.distance_meters < sorted[Len(sorted)].distance_meters
       THEN insertByDistance(SubSeq(sorted, 1, Len(sorted) - 1), r)
              \o << sorted[Len(sorted)] >>
       ELSE sorted \o << r >>

\* variant of sortByDistance: the list is left in candidate order
sortByDistanceNone(results) == results

RECURSIVE sortByDistance(_)
\* results.sort((a, b) => a.distance_meters - b.distance_meters): Array.sort
\* is stable
sortByDistance(results) ==
  IF results = << >> THEN << >>
  ELSE insertByDistance(sortByDistance(SubSeq(results, 1, Len(results) - 1)),
                        results[Len(results)])

\* Array.slice(0, limit) for limit >= 0
slice(s, limit) == SubSeq(s, 1, Min(limit, Len(s)))

\* the WHERE clause of the R-tree query of findAreasNearby
rtreeOverlaps(row, bbox) ==
  /\ row.bbox.maxLat >= bbox.minLat
  /\ row.bbox.minLat <= bbox.maxLat
  /\ row.bbox.maxLng >= bbox.minLng
  /\ row.bbox.minLng <= bbox.maxLng

\* variant of nearbyKeeps: the distance test left out, every row of the box
\* is kept
nearbyKeepsAll(point, row, radiusMeters) == TRUE

\* the distance test of the loop of findAreasNearby
nearbyKeeps(point, row, radiusMeters) ==
  withinRadius(point, row.center, radiusMeters)

\* the rows pushed by the loop of findAreasNearby, in candidate order
nearbyResults(rows, point, radiusMeters) ==
  LET bbox == boundingBoxFromRadius(point, radiusMeters)
      kept == SelectSeq(rows, LAMBDA row :
                rtreeOverlaps(row, bbox)
                  /\ nearbyKeeps(point, row, radiusMeters))
  IN  [i \in 1..Len(kept) |->
         rowToResult(kept[i], roundedMeters(point, kept[i].center))]

\* variant of findAreasNearby: the results are cut before they are sorted
findAreasNearbyCutFirst(rows, point, radiusMeters, limit) ==
  sortByDistance(slice(nearbyResults(rows, point, radiusMeters), limit))

findAreasNearby(rows, point, radiusMeters, limit) ==
  slice(sortByDistance(nearbyResults(rows, point, radiusMeters)), limit)

----------------------------------------------------------------------------
(* src/db/queries.ts : findAreasContaining *)

\* the WHERE clause of the R-tree query of findAreasContaining
rtreeContains(row, point) ==
  /\ row.bbox.minLat <= point.lat
  /\ row.bbox.maxLat >= point.lat
  /\ row.bbox.minLng <= point.lng
  /\ row.bbox.maxLng >= point.lng

\* JSON.parse(row.polygon) followed by pointInPolygon: "in", "out" or
\* "throw"
polygonTest(row, point) ==
  IF row.polygon.kind = "unparseable" THEN "throw"
  ELSE IF row.polygon.shape = "object" THEN "throw"
  ELSE IF row.polygon.shape = "flat" THEN "out"
  ELSE IF pointInPolygon(point, row.polygon) THEN "in"
  ELSE "out"

\* variant of tryPolygonTest: no try / catch, the exception leaves the loop
tryPolygonTestUncaught(row, point) == polygonTest(row, point)

\* the try / catch around the polygon test: an exception skips the row
tryPolygonTest(row, point) ==
  LET t == polygonTest(row, point)
  IN  IF t = "throw" THEN "out" ELSE t

\* variant of containingPushes: a row without polygon is pushed only within
\* 100 m of its center
containingPushesWithin100(row, point) ==
  IF row.polygon.kind # "null"
  THEN tryPolygonTest(row, point) = "in"
  ELSE withinRadius(point, row.center, 100)

\* whether the loop of findAreasContaining pushes the candidate
containingPushes(row, point) ==
  IF row.polygon.kind # "null"
  THEN tryPolygonTest(row, point) = "in"
  ELSE TRUE

\* the results list built by the loop of findAreasContaining
containingResults(rows, point) ==
  LET pushed == SelectSeq(rows, LAMBDA row :
                  rtreeContains(row, point) /\ containingPushes(row, point))
  IN  [i \in 1..Len(pushed) |->
         rowToResult(pushed[i], roundedMeters(point, pushed[i].center))]

\* the filter that builds polygonMatches
isPolygonMatch(r) == r.distance_meters < ContainingMaxMeters

\* an exception that leaves the loop ends the call
containingRaises(rows, point) ==
  \E i \in 1..Len(rows) :
    /\ rtreeContains(rows[i], point)
    /\ rows[i].polygon.kind # "null"
    /\ tryPolygonTest(rows[i], point) = "throw"

\* findAreasContaining: matches is polygonMatches after its sort, fallback
\* tells that the call returned findAreasNearby's result
findAreasContaining(rows, point, limit) ==
  LET results == containingResults(rows, point)
      polygonMatches == sortByDistance(SelectSeq(results, isPolygonMatch))
  IN  IF containingRaises(rows, point)
      THEN [raised |-> TRUE, fallback |-> FALSE, matches |-> << >>,
            areas |-> << >>]
      ELSE IF Len(polygonMatches) > 0
      THEN [raised |-> FALSE, fallback |-> FALSE, matches |-> polygonMatches,
            areas |-> slice(polygonMatches, limit)]
      ELSE [raised |-> FALSE, fallback |-> TRUE, matches |-> << >>,
            areas |-> findAreasNearby(rows, point, ContainingFallbackRadius,
                                      limit)]

----------------------------------------------------------------------------
(* src/db/queries.ts : groupAreaResults *)

sameArea(a, b) == a.osm_id = b.osm_id /\ a.osm_type = b.osm_type

SeqContains(s, e) == \E i \in 1..Len(s) : s[i] = e

\* the value of an optional distance that is absent (distance?: number)
Undefined == -1

\* a string in a condition: null and the empty string are falsy
truthy(text) == text # Null /\ text # ""

\* the update of an existing group by one more row of its area
mergeIntoGroup(existing, result) ==
  [existing EXCEPT
     !.postal_codes =
        IF truthy(result.postal_code) /\ ~SeqContains(@, result.postal_code)
        THEN Append(@, result.postal_code) ELSE @,
     !.distance_meters =
        IF result.distance_meters # Undefined
             /\ (@ = Undefined \/ result.distance_meters < @)
        THEN result.distance_meters ELSE @]

\* variant of newGroup: the first row's postal code is not collected
newGroupWithoutCode(result) ==
  [osm_id |-> result.osm_id, osm_type |-> result.osm_type,
   center |-> result.center, postal_codes |-> << >>,
   distance_meters |-> result.distance_meters]

\* the group created for the first row of an area
newGroup(result) ==
  [osm_id |-> result.osm_id, osm_type |-> result.osm_type,
   center |-> result.center,
   postal_codes |-> IF truthy(result.postal_code)
                    THEN << result.postal_code >> ELSE << >>,
   distance_meters |-> result.distance_meters]

RECURSIVE groupFrom(_, _, _)
\* the loop of groupAreaResults from row i on; grouped is the Map's values
\* in insertion order
groupFrom(results, i, grouped) ==
  IF i > Len(results) THEN grouped
  ELSE LET result == results[i]
           hit == {k \in 1..Len(grouped) : sameArea(grouped[k], result)}
       IN  IF hit # {}
           THEN LET k == CHOOSE k \in hit : TRUE
                IN  groupFrom(results, i + 1,
                      [grouped EXCEPT ![k] = mergeIntoGroup(@, result)])
           ELSE groupFrom(results, i + 1, Append(grouped, newGroup(result)))

\* a.distance_meters ?? 0
distanceOrZero(g) ==
  IF g.distance_meters = Undefined THEN 0 ELSE g.distance_meters

RECURSIVE insertGroup(_, _)
\* place g after every group whose distance (?? 0) is not greater
insertGroup(sorted, g) ==
  IF sorted = << >> THEN << g >>
  ELSE IF distanceOrZero(g) < distanceOrZero(sorted[Len(sorted)])
       THEN insertGroup(SubSeq(sorted, 1, Len(sorted) - 1), g)
              \o << sorted[Len(sorted)] >>
       ELSE sorted \o << g >>

RECURSIVE sortGroups(_)
\* results_array.sort((a, b) => (a.distance_meters ?? 0)
\*                                - (b.distance_meters ?? 0))
sortGroups(groups) ==
  IF groups = << >> THEN << >>
  ELSE insertGroup(sortGroups(SubSeq(groups, 1, Len(groups) - 1)),
                   groups[Len(groups)])

groupAreaResults(results) == sortGroups(groupFrom(results, 1, << >>))

----------------------------------------------------------------------------
(* src/db/queries.ts : findAdjacentAreas, called with lat / lng and no     *)
(* query (the center of a query is resolved by searchAreasByName)          *)

NoArea == [osm_id |-> 0, osm_type |-> "none", center |-> Pt(0, 0),
           postal_codes |-> << >>, distance_meters |-> 0]

\* findCenterByLocation: found is FALSE for the null result
findCenterByLocation(rows, point) ==
  LET nearby == findAreasNearby(rows, point, CenterLookupRadius,
                                CenterLookupLimit)
  IN  IF Len(nearby) = 0 THEN [found |-> FALSE, area |-> NoArea]
      ELSE [found |-> TRUE, area |-> groupAreaResults(nearby)[1]]

\* variant of isCenterItself: the center is recognised by its coordinates
isCenterByCoordinates(area, center) == area.center = center.center

\* the test that skips the center in the loop over the grouped areas
isCenterItself(area, center) ==
  area.osm_id = center.osm_id /\ area.osm_type = center.osm_type

\* the sector an area is put in
sectorOf(center, area) ==
  roundBearingToSector(calculateBearing(center.center, area.center),
                       AdjacentSectors)

\* adjacentWithDirection: the grouped areas but the center, with degrees
adjacentWithDirection(grouped, center) ==
  LET others == SelectSeq(grouped, LAMBDA area : ~isCenterItself(area, center))
  IN  [i \in 1..Len(others) |->
         [osm_id |-> others[i].osm_id, osm_type |-> others[i].osm_type,
          center |-> others[i].center,
          postal_codes |-> others[i].postal_codes,
          distance_meters |-> others[i].distance_meters,
          degrees |-> sectorOf(center, others[i])]]

RECURSIVE sectorKeys(_, _, _)
\* the keys of sectorMap in insertion order
sectorKeys(areas, i, keys) ==
  IF i > Len(areas) THEN keys
  ELSE sectorKeys(areas, i + 1,
         IF SeqContains(keys, areas[i].degrees) THEN keys
         ELSE Append(keys, areas[i].degrees))

\* variant of sectorEntries: levels are counted from 0
sectorEntriesFromZero(areas, sector) ==
  LET sorted == sortByDistance(SelectSeq(areas,
                  LAMBDA area : area.degrees = sector))
  IN  [i \in 1..Len(sorted) |->
         [osm_id |-> sorted[i].osm_id, osm_type |-> sorted[i].osm_type,
          center |-> sorted[i].center,
          postal_codes |-> sorted[i].postal_codes,
          distance_meters |-> sorted[i].distance_meters,
          degrees |-> sector,
          direction |-> bearingToCardinal(sector),
          level |-> i - 1]]

\* the entries of one sector: sorted by distance, levels 1, 2, 3, ...
sectorEntries(areas, sector) ==
  LET sorted == sortByDistance(SelectSeq(areas,
                  LAMBDA area : area.degrees = sector))
  IN  [i \in 1..Len(sorted) |->
         [osm_id |-> sorted[i].osm_id, osm_type |-> sorted[i].osm_type,
          center |-> sorted[i].center,
          postal_codes |-> sorted[i].postal_codes,
          distance_meters |-> sorted[i].distance_meters,
          degrees |-> sector,
          direction |-> bearingToCardinal(sector),
          level |-> i]]

RECURSIVE levelledFrom(_, _, _)
\* adjacentResults: the entries of every sector, in sectorMap order
levelledFrom(areas, keys, i) ==
  IF i > Len(keys) THEN << >>
  ELSE sectorEntries(areas, keys[i]) \o levelledFrom(areas, keys, i + 1)

\* the comparator of the final sort is negative
levelBefore(a, b) ==
  IF a.level # b.level THEN a.level < b.level ELSE a.degrees < b.degrees

RECURSIVE insertByLevel(_, _)
insertByLevel(sorted, r) ==
  IF sorted = << >> THEN << r >>
  ELSE IF levelBefore(r, sorted[Len(sorted)])
       THEN insertByLevel(SubSeq(sorted, 1, Len(sorted) - 1), r)
              \o << sorted[Len(sorted)] >>
       ELSE sorted \o << r >>

\* variant of sortByLevel: the entries stay grouped by sector
sortByLevelNone(entries) == entries

RECURSIVE sortByLevel(_)
\* adjacentResults.sort(by level, then by degrees)
sortByLevel(entries) ==
  IF entries = << >> THEN << >>
  ELSE insertByLevel(sortByLevel(SubSeq(entries, 1, Len(entries) - 1)),
                     entries[Len(entries)])

\* findAdjacentAreas once the center lookup has returned c
adjacentAround(rows, c, radius, limit) ==
  LET center == c.area
      nearby == findAreasNearby(rows, center.center, radius,
                                limit * AdjacentRawFactor)
      grouped == groupAreaResults(nearby)
      withDirection == adjacentWithDirection(grouped, center)
      adjacentResults ==
        levelledFrom(withDirection, sectorKeys(withDirection, 1, << >>), 1)
  IN  IF ~c.found
      THEN [found |-> FALSE, center |-> NoArea, adjacent |-> << >>]
      ELSE [found |-> TRUE,
            center |-> [center EXCEPT !.distance_meters = 0],
            adjacent |-> slice(sortByLevel(adjacentResults), limit)]

findAdjacentAreas(rows, point, radius, limit) ==
  adjacentAround(rows, findCenterByLocation(rows, point), radius, limit)

----------------------------------------------------------------------------
(* State: the stored rows, the call being answered (op is "init" between   *)
(* two requests: the server runs one handler at a time), its arguments and *)
(* its result.                                                             *)

VARIABLES db, op, arg, out

vars == << db, op, arg, out >>

NoArg == [point |-> Pt(0, 0), radius |-> 0, limit |-> 0, bearing |-> 0]

NoOut == [areas |-> << >>, raised |-> FALSE, fallback |-> FALSE,
          matches |-> << >>, found |-> FALSE, center |-> NoArea,
          adjacent |-> << >>, degrees |-> 0, direction |-> "none"]

Init ==
  /\ db \in Databases
  /\ op = "init"
  /\ arg = NoArg
  /\ out = NoOut

\* a call of findAreasNearby
Nearby(point, radius, limit) ==
  /\ op = "init"
  /\ op' = "nearby"
  /\ arg' = [NoArg EXCEPT !.point = point, !.radius = radius,
                          !.limit = limit]
  /\ out' = [NoOut EXCEPT !.areas = findAreasNearby(db, point, radius, limit)]
  /\ UNCHANGED db

\* a call of findAreasContaining
Containing(point, limit) ==
  /\ op = "init"
  /\ op' = "containing"
  /\ arg' = [NoArg EXCEPT !.point = point, !.limit = limit]
  /\ LET r == findAreasContaining(db, point, limit)
     IN  out' = [NoOut EXCEPT !.areas = r.areas, !.raised = r.raised,
                              !.fallback = r.fallback, !.matches = r.matches]
  /\ UNCHANGED db

\* a call of findAdjacentAreas with lat / lng
Adjacent(point, radius, limit) ==
  /\ op = "init"
  /\ op' = "adjacent"
  /\ arg' = [NoArg EXCEPT !.point = point, !.radius = radius,
                          !.limit = limit]
  /\ LET r == findAdjacentAreas(db, point, radius, limit)
     IN  out' = [NoOut EXCEPT !.found = r.found, !.center = r.center,
                              !.adjacent = r.adjacent]
  /\ UNCHANGED db

NearbyCall == \E p \in QueryPoints, r \in Radii, l \in Limits : Nearby(p, r, l)

ContainingCall == \E p \in QueryPoints, l \in Limits : Containing(p, l)

AdjacentCall ==
  \E p \in QueryPoints, r \in Radii, l \in Limits : Adjacent(p, r, l)

\* the response is sent and the server waits for the next request
Respond ==
  /\ op # "init"
  /\ op' = "init"
  /\ arg' = NoArg
  /\ out' = NoOut
  /\ UNCHANGED db

Next == NearbyCall \/ ContainingCall \/ AdjacentCall \/ Respond

Spec == Init /\ [][Next]_vars

----------------------------------------------------------------------------
(* The sector functions on every bearing, next to the adjacency query on   *)
(* stored rows in five directions.                                         *)

SectorRows == {1, 4, 5, 9, 10, 13}

SectorDatabases ==
  {d \in Databases : \A i \in 1..Len(d) : d[i].id \in SectorRows}

InitSector ==
  /\ db \in SectorDatabases
  /\ op = "init"
  /\ arg = NoArg
  /\ out = NoOut

\* roundBearingToSector(bearing, 8) and bearingToCardinal of its result
RoundBearing(bearing) ==
  /\ op = "init"
  /\ op' = "sector"
  /\ arg' = [NoArg EXCEPT !.bearing = bearing]
  /\ LET degrees == roundBearingToSector(bearing, AdjacentSectors)
     IN  out' = [NoOut EXCEPT !.degrees = degrees,
                              !.direction = bearingToCardinal(degrees)]
  /\ UNCHANGED db

RoundBearingCall == \E b \in 0..719 : RoundBearing(b)

NextSector == RoundBearingCall \/ AdjacentCall \/ Respond

SpecSector == InitSector /\ [][NextSector]_vars

----------------------------------------------------------------------------
(* Helpers of the properties *)

Ids(results) == {results[i].id : i \in 1..Len(results)}

Range(s) == {s[i] : i \in 1..Len(s)}

\* the rows of db whose polygon payload parses to a geometry or is absent
wellFormedRows == SelectSeq(db, LAMBDA row : ~isMalformed(row.polygon))

\* the rows of db that have no polygon and whose indexed box holds the point
polygonlessCandidates ==
  {row \in Range(db) : row.polygon.kind = "null" /\ rtreeContains(row, arg.point)}

\* the rows of db whose stored polygon contains the point, inside their box
polygonContaining ==
  {row \in Range(db) :
     /\ row.polygon.kind = "json"
     /\ row.polygon.shape = "geometry"
     /\ rtreeContains(row, arg.point)
     /\ pointInPolygon(arg.point, row.polygon)}

----------------------------------------------------------------------------
(* Nearby *)

\* C1: every area returned by findAreasNearby is within radiusMeters of the
\* center by haversine distance, and at most limit areas are returned.
C1_NearbyWithinRadiusAndLimit ==
  op = "nearby" =>
    /\ Len(out.areas) <= arg.limit
    /\ \A i \in 1..Len(out.areas) :
         haversineSq(arg.point, out.areas[i].center)
           <= (2 * arg.radius) * (2 * arg.radius)

\* reached: a stored row inside the query box but beyond the radius is left
\* out while a nearer row is returned
C1_Witness ==
  /\ op = "nearby"
  /\ Len(out.areas) >= 1
  /\ \E row \in Range(db) :
       /\ rtreeOverlaps(row, boundingBoxFromRadius(arg.point, arg.radius))
       /\ haversineSq(arg.point, row.center)
            > (2 * arg.radius) * (2 * arg.radius)
       /\ row.id \notin Ids(out.areas)

----------------------------------------------------------------------------
(* Containing *)

\* C3 as stated: every stored area whose polygon contains the point, the
\* point lying in its indexed box, is returned by findAreasContaining when
\* there are at most limit such areas, however far its stored center is.
C3_EveryContainingPolygonReturned ==
  op = "containing" =>
    (Cardinality(polygonContaining) <= arg.limit
       => \A row \in polygonContaining : row.id \in Ids(out.areas))

C5_FallbackIffNoPolygonMatch ==
  op = "containing" =>
    LET polygonBased ==
          {row \in polygonContaining :
             roundedMeters(arg.point, row.center) < ContainingMaxMeters}
    IN  IF polygonBased = {}
        THEN out.areas = findAreasNearby(db, arg.point,
                                         ContainingFallbackRadius, arg.limit)
        ELSE /\ ~out.fallback
             /\ out.areas = slice(out.matches, arg.limit)

\* C6 as stated: a candidate with a malformed polygon payload is skipped,
\* the call does not raise, and every other row is returned exactly as if
\* the malformed row were absent.
C6_MalformedAsIfAbsent ==
  op = "containing" =>
    /\ ~out.raised
    /\ SelectSeq(out.areas, LAMBDA r :
         \E row \in Range(wellFormedRows) : row.id = r.id)
         = findAreasContaining(wellFormedRows, arg.point, arg.limit).areas

\* C6 amended: a candidate with a malformed polygon payload is skipped by
\* the containment pass: the call does not raise, and the matches, the
\* decision to fall back and, without fallback, the result are those of the
\* same stored rows without the malformed ones.
C6_MalformedSkippedByContainment ==
  op = "containing" =>
    LET ref == findAreasContaining(wellFormedRows, arg.point, arg.limit)
    IN  /\ ~out.raised
        /\ out.matches = ref.matches
        /\ out.fallback = ref.fallback
        /\ ~out.fallback => out.areas = ref.areas

\* reached: a malformed candidate was passed over and another candidate of
\* the same call was matched and returned
C6_Witness ==
  /\ op = "containing"
  /\ \E row \in Range(db) :
       rtreeContains(row, arg.point) /\ isMalformed(row.polygon)
  /\ Len(out.matches) >= 1
  /\ ~out.fallback

----------------------------------------------------------------------------
(* Adjacent *)

\* C7: with a resolved center, no entry of adjacent has the (osm_type,
\* osm_id) of the center, and an area of another identity at the center's
\* coordinates is kept (whenever the rows in range fit in limit).
C7_CenterExcludedByIdentity ==
  (op = "adjacent" /\ out.found) =>
    /\ \A i \in 1..Len(out.adjacent) :
         ~(out.adjacent[i].osm_type = out.center.osm_type
             /\ out.adjacent[i].osm_id = out.center.osm_id)
    /\ LET inRange == {row \in Range(db) :
                         haversineSq(out.center.center, row.center)
                           <= (2 * arg.radius) * (2 * arg.radius)}
       IN  Cardinality(inRange) <= arg.limit =>
             \A row \in inRange :
               (row.center = out.center.center
                  /\ ~(row.osm_type = out.center.osm_type
                         /\ row.osm_id = out.center.osm_id))
               => \E i \in 1..Len(out.adjacent) :
                    /\ out.adjacent[i].osm_type = row.osm_type
                    /\ out.adjacent[i].osm_id = row.osm_id

\* reached: an entry of adjacent has the coordinates of the center and
\* another identity
C7_Witness ==
  /\ op = "adjacent"
  /\ out.found
  /\ \E i \in 1..Len(out.adjacent) :
       /\ out.adjacent[i].center = out.center.center
       /\ out.adjacent[i].osm_id = out.center.osm_id
       /\ out.adjacent[i].osm_type # out.center.osm_type

\* the entries of adjacent in one sector
entriesOfSector(degrees) ==
  {e \in Range(out.adjacent) : e.degrees = degrees}

C9_OrderedByLevelThenDegrees ==
  (op = "adjacent" /\ out.found) =>
    \A i, j \in 1..Len(out.adjacent) :
      i < j =>
        \/ out.adjacent[i].level < out.adjacent[j].level
        \/ /\ out.adjacent[i].level = out.adjacent[j].level
           /\ out.adjacent[i].degrees < out.adjacent[j].degrees

\* reached: two level-1 entries of different sectors, the farther area in
\* the smaller sector first
C9_Witness ==
  /\ op = "adjacent"
  /\ out.found
  /\ Len(out.adjacent) >= 2
  /\ out.adjacent[1].level = 1
  /\ out.adjacent[2].level = 1
  /\ out.adjacent[1].degrees < out.adjacent[2].degrees
  /\ out.adjacent[1].distance_meters > out.adjacent[2].distance_meters

\* the sector of a bearing (half-degrees) by the formula
\* 45 * floor(((b + 22.5) mod 360) / 45)
sectorByFormula(bearing) == 45 * (((bearing + 45) % 720) \div 90)

----------------------------------------------------------------------------
(* Strings.  A string is a sequence of characters and a character is a     *)
(* one-letter string; "a:" and "A:" stand for the letters a and A with a   *)
(* diaeresis, the only letters with a diacritical mark in the model.       *)

toLowerChar(c) ==
  CASE c = "A" -> "a" [] c = "B" -> "b" [] c = "K" -> "k"
    [] c = "A:" -> "a:" [] OTHER -> c

toUpperChar(c) ==
  CASE c = "a" -> "A" [] c = "b" -> "B" [] c = "k" -> "K" [] c = "l" -> "L"
    [] c = "i" -> "I" [] c = "o" -> "O" [] c = "a:" -> "A:" [] OTHER -> c

\* String.prototype.toLowerCase
toLowerCase(text) == [i \in 1..Len(text) |-> toLowerChar(text[i])]

\* String.prototype.toUpperCase
toUpperCase(text) == [i \in 1..Len(text) |-> toUpperChar(text[i])]

\* SQLite's LOWER(): only the ASCII letters are folded
sqlLower(text) ==
  [i \in 1..Len(text) |->
     IF text[i] = "A:" THEN text[i] ELSE toLowerChar(text[i])]

\* normalize("NFD").replace(/[\u0300-\u036f]/g, ""): the base letter is kept
removeMarks(text) ==
  [i \in 1..Len(text) |->
     CASE text[i] = "a:" -> "a" [] text[i] = "A:" -> "A" [] OTHER -> text[i]]

RECURSIVE trimStart(_)
trimStart(text) ==
  IF text # << >> /\ text[1] = " " THEN trimStart(Tail(text)) ELSE text

RECURSIVE trimEnd(_)
trimEnd(text) ==
  IF text # << >> /\ text[Len(text)] = " "
  THEN trimEnd(SubSeq(text, 1, Len(text) - 1)) ELSE text

\* String.prototype.trim
trim(text) == trimEnd(trimStart(text))

\* variant of normalizeText: the diacritical marks are kept
normalizeTextKeepsMarks(text) == trim(toLowerCase(text))

normalizeText(text) == trim(removeMarks(toLowerCase(text)))

startsWith(text, prefix) ==
  Len(prefix) <= Len(text) /\ SubSeq(text, 1, Len(prefix)) = prefix

\* String.prototype.indexOf, 0-based, -1 when the string does not occur
indexOf(text, part) ==
  LET at == {i \in 0..(Len(text) - Len(part)) :
               SubSeq(text, i + 1, i + Len(part)) = part}
  IN  IF at = {} THEN -1 ELSE SetMin(at)

includes(text, part) == indexOf(text, part) >= 0

isDigit(c) == c \in {"0", "1", "2", "3", "4", "5", "6", "7", "8", "9"}

\* \w: an ASCII letter, a digit or the underscore
isWordChar(c) ==
  isDigit(c) \/ c \in {"a", "b", "k", "l", "i", "o", "A", "B", "K", "_"}

\* the characters of a stored postal code (the rows keep postal codes as
\* atoms, which is what grouping compares)
chars(code) ==
  CASE code = "00100" -> << "0", "0", "1", "0", "0" >>
    [] code = "00200" -> << "0", "0", "2", "0", "0" >>
    [] code = "00300" -> << "0", "0", "3", "0", "0" >>
    [] code = "00400" -> << "0", "0", "4", "0", "0" >>
    [] OTHER -> << >>

----------------------------------------------------------------------------
(* src/db/queries.ts : searchAreasByName and findCenterBySearch.  The      *)
(* scorer fuzzyMatchScore is imported from lib/geo and its code is not     *)
(* part of the sources: its value for a (query, name) pair is an input of  *)
(* the model, drawn from ScoreLevels (hundredths).                         *)

ScoreLevels == {0, 60, 100}

\* src/db/queries.ts:264  Math.max(limit * 5, 100)
SearchCandidateFloor == 100

\* src/db/queries.ts:479  searchAreasByName(db, query, 10)
CenterSearchLimit == 10

\* /^[\d\w]{2,10}$/i.test(lowerQuery)
isPostalCodeQuery(lowerQuery) ==
  /\ Len(lowerQuery) >= 2
  /\ Len(lowerQuery) <= 10
  /\ \A i \in 1..Len(lowerQuery) : isWordChar(lowerQuery[i])

\* the WHERE clause of searchAreasByName; LIKE folds ASCII case, and among
\* the name patterns the two containment patterns subsume the others
searchWhere(row, query) ==
  LET lowerQuery == trim(toLowerCase(query))
      normalizedQuery == normalizeText(query)
  IN  \/ includes(sqlLower(row.name), sqlLower(lowerQuery))
      \/ includes(sqlLower(row.name), sqlLower(normalizedQuery))
      \/ \E k \in 1..Len(row.names) :
           includes(sqlLower(row.names[k]), sqlLower(lowerQuery))
      \/ /\ isPostalCodeQuery(lowerQuery)
         /\ row.postal_code # Null
         /\ startsWith(sqlLower(chars(row.postal_code)),
                       sqlLower(toUpperCase(lowerQuery)))

\* bestScore of a row, in hundredths; score is the input that stands for
\* fuzzyMatchScore(lowerQuery, .)
bestScore(row, query, score) ==
  LET lowerQuery == trim(toLowerCase(query))
      postalLower == toLowerCase(chars(row.postal_code))
      postal == IF ~truthy(row.postal_code) THEN 0
                ELSE IF postalLower = lowerQuery THEN 100
                ELSE IF startsWith(postalLower, lowerQuery) THEN 95
                ELSE 0
      nameScore == score[toLowerCase(row.name)]
      afterName == IF nameScore > postal THEN nameScore ELSE postal
      translated == {score[toLowerCase(row.names[k])] :
                       k \in 1..Len(row.names)} \cup {afterName}
  IN  SetMax(translated)

RECURSIVE insertByScore(_, _)
\* place e after every element whose score is not smaller
insertByScore(sorted, e) ==
  IF sorted = << >> THEN << e >>
  ELSE IF e.score > sorted[Len(sorted)].score
       THEN insertByScore(SubSeq(sorted, 1, Len(sorted) - 1), e)
              \o << sorted[Len(sorted)] >>
       ELSE sorted \o << e >>

RECURSIVE sortByScore(_)
\* sort((a, b) => b.score - a.score): descending, stable
sortByScore(entries) ==
  IF entries = << >> THEN << >>
  ELSE insertByScore(sortByScore(SubSeq(entries, 1, Len(entries) - 1)),
                     entries[Len(entries)])

searchAreasByName(rows, query, limit, score) ==
  LET candidateLimit == IF limit * 5 > SearchCandidateFloor
                        THEN limit * 5 ELSE SearchCandidateFloor
      found == slice(SelectSeq(rows, LAMBDA row : searchWhere(row, query)),
                     candidateLimit)
      kept == SelectSeq(found, LAMBDA row : bestScore(row, query, score) > 0)
      scoredResults == [i \in 1..Len(kept) |->
                          [row |-> kept[i],
                           score |-> bestScore(kept[i], query, score)]]
      top == slice(sortByScore(scoredResults), limit)
  IN  [i \in 1..Len(top) |-> rowToResult(top[i].row, Undefined)]

\* findCenterBySearch: found is FALSE for the null result
findCenterBySearch(rows, query, score) ==
  LET candidates == searchAreasByName(rows, query, CenterSearchLimit, score)
  IN  IF Len(candidates) = 0 THEN [found |-> FALSE, area |-> NoArea]
      ELSE [found |-> TRUE, area |-> groupAreaResults(candidates)[1]]

\* findAdjacentAreas with its options: the query is "" when it is absent,
\* hasPoint tells that lat and lng are given
findAdjacentAreasBy(rows, query, hasPoint, point, radius, limit, score) ==
  LET c == IF query # << >> THEN findCenterBySearch(rows, query, score)
           ELSE IF hasPoint THEN findCenterByLocation(rows, point)
           ELSE [found |-> FALSE, area |-> NoArea]
  IN  adjacentAround(rows, c, radius, limit)

----------------------------------------------------------------------------
(* src/index.ts : the handlers of GET /areas/nearby and /areas/adjacent.   *)
(* The coordinates of the model are offsets from a reference point well    *)
(* inside the valid ranges, so the range checks of lat and lng pass.       *)

\* src/index.ts:159  limit * 3
GroupRawFactor == 3

\* src/index.ts:249  radius < 100
AdjacentMinRadius == 100

\* src/index.ts:154, 249  radius > 100000
EndpointMaxRadius == 100000

NamedRow(id, osm_type, osm_id, center, postal_code, name, names) ==
  Row(id, osm_type, osm_id, center, NoPolygon, pointBBox(center), postal_code)
    @@ [name |-> name, names |-> names]

Kallio == << "K", "a", "l", "l", "i", "o" >>

Kamppi == << "K", "A:", "b", "b", "i" >>

\* one area with four postal codes, a second area 300 m from it and a
\* third, named like the first, 6364 m away
EndpointRowUniverse ==
  << NamedRow(1, "node", 1, Pt(0, 0), "00100", Kallio, << >>),
     NamedRow(2, "node", 1, Pt(0, 0), "00200", Kallio, << >>),
     NamedRow(3, "node", 1, Pt(0, 0), "00300", Kallio, << >>),
     NamedRow(4, "node", 1, Pt(0, 0), "00400", Kallio, << >>),
     NamedRow(5, "node", 2, Pt(432, 417), "00100", Kamppi,
              << << "k", "a", "b", "b", "i" >> >>),
     NamedRow(6, "node", 9, Pt(9000, -9000), Null, Kallio, << >>) >>

RECURSIVE AscEndpointSeq(_)
AscEndpointSeq(S) ==
  IF S = {} THEN << >>
  ELSE LET m == SetMin(S)
       IN  << EndpointRowUniverse[m] >> \o AscEndpointSeq(S \ {m})

EndpointDatabases ==
  LET sets == SUBSET (1..Len(EndpointRowUniverse))
  IN  {AscEndpointSeq(S) : S \in sets}
        \cup {Reverse(AscEndpointSeq(S)) : S \in sets}

\* the lowercased names a score is given to
EndpointNames ==
  {toLowerCase(EndpointRowUniverse[i].name) :
     i \in 1..Len(EndpointRowUniverse)}
    \cup UNION {{toLowerCase(EndpointRowUniverse[i].names[k]) :
                    k \in 1..Len(EndpointRowUniverse[i].names)} :
                 i \in 1..Len(EndpointRowUniverse)}

EndpointQueries ==
  { << "K", "A" >>, << "o", "o" >>, << "o", "k" >>, << "0", "0", "1" >> }

EndpointRadii == {50, 5000}

\* the body of a 400 response
ErrorResponse ==
  [status |-> 400, areas |-> << >>, center |-> NoArea, found |-> FALSE,
   adjacent |-> << >>, count |-> 0]

\* /areas/nearby (src/index.ts:135-170)
nearbyResponse(rows, point, radius, limit, group) ==
  LET rawLimit == IF group THEN limit * GroupRawFactor ELSE limit
      rawAreas == findAreasNearby(rows, point, radius, rawLimit)
      areas == IF group THEN slice(groupAreaResults(rawAreas), limit)
               ELSE slice(rawAreas, limit)
  IN  IF radius <= 0 \/ radius > EndpointMaxRadius THEN ErrorResponse
      ELSE [status |-> 200, areas |-> areas, center |-> NoArea,
            found |-> FALSE, adjacent |-> << >>,
            count |-> IF group THEN Len(areas) ELSE Len(rawAreas)]

\* variant of adjacentBody: the null result is not tested and the handler
\* answers with the fields of the result
adjacentBodyUnchecked(result) ==
  [status |-> IF result.found THEN 200 ELSE 500, areas |-> << >>,
   center |-> result.center, found |-> result.found,
   adjacent |-> result.adjacent, count |-> Len(result.adjacent)]

\* the body the handler of /areas/adjacent builds from the result; found
\* is FALSE when center is null
adjacentBody(result) ==
  IF ~result.found
  THEN [status |-> 200, areas |-> << >>, center |-> NoArea, found |-> FALSE,
        adjacent |-> << >>, count |-> 0]
  ELSE [status |-> 200, areas |-> << >>, center |-> result.center,
        found |-> TRUE, adjacent |-> result.adjacent,
        count |-> Len(result.adjacent)]

\* /areas/adjacent (src/index.ts:228-266)
adjacentResponse(rows, query, hasPoint, point, radius, limit, score) ==
  IF query = << >> /\ ~hasPoint THEN ErrorResponse
  ELSE IF radius < AdjacentMinRadius \/ radius > EndpointMaxRadius
  THEN ErrorResponse
  ELSE adjacentBody(findAdjacentAreasBy(rows, query, hasPoint, point, radius,
                                        limit, score))

InitEndpoint ==
  /\ db \in EndpointDatabases
  /\ op = "init"
  /\ arg = NoArg
  /\ out = NoOut

NearbyRequest(point, radius, limit, group) ==
  /\ op = "init"
  /\ op' = "GET /areas/nearby"
  /\ arg' = [point |-> point, radius |-> radius, limit |-> limit,
             group |-> group, query |-> << >>, hasPoint |-> TRUE,
             score |-> [n \in EndpointNames |-> 0]]
  /\ out' = nearbyResponse(db, point, radius, limit, group)
  /\ UNCHANGED db

AdjacentRequest(query, hasPoint, point, radius, limit, score) ==
  /\ op = "init"
  /\ op' = "GET /areas/adjacent"
  /\ arg' = [point |-> point, radius |-> radius, limit |-> limit,
             group |-> TRUE, query |-> query, hasPoint |-> hasPoint,
             score |-> score]
  /\ out' = adjacentResponse(db, query, hasPoint, point, radius, limit, score)
  /\ UNCHANGED db

NearbyRequestCall ==
  /\ op = "init"
  /\ \E p \in QueryPoints, r \in EndpointRadii, l \in Limits, g \in BOOLEAN :
       NearbyRequest(p, r, l, g)

\* a request with lat and lng, or with neither a query nor a point
AdjacentByLocationCall ==
  /\ op = "init"
  /\ \E h \in BOOLEAN, p \in QueryPoints, r \in EndpointRadii, l \in Limits :
       AdjacentRequest(<< >>, h, IF h THEN p ELSE Pt(0, 0), r, l,
                       [n \in EndpointNames |-> 0])

\* a request with q; lat and lng may be given as well
AdjacentByQueryCall ==
  /\ op = "init"
  /\ \E q \in EndpointQueries, h \in BOOLEAN, r \in EndpointRadii, l \in Limits,
        sc \in [EndpointNames -> ScoreLevels] :
       AdjacentRequest(q, h, Pt(0, 0), r, l, sc)

NextEndpoint ==
  NearbyRequestCall \/ AdjacentByLocationCall \/ AdjacentByQueryCall
    \/ Respond

SpecEndpoint == InitEndpoint /\ [][NextEndpoint]_vars

----------------------------------------------------------------------------
(* Adjacency without a center, grouping at the endpoint *)

\* the request passes the handler's validation
adjacentRequestValid ==
  /\ arg.query # << >> \/ arg.hasPoint
  /\ arg.radius >= AdjacentMinRadius
  /\ arg.radius <= EndpointMaxRadius

\* no stored row can be the center: no row matches the search term with a
\* positive score, or no row lies within the lookup radius of the point
noCenterResolvable ==
  IF arg.query # << >>
  THEN ~\E row \in Range(db) :
          /\ searchWhere(row, arg.query)
          /\ bestScore(row, arg.query, arg.score) > 0
  ELSE ~\E row \in Range(db) :
          haversineSq(arg.point, row.center)
            <= (2 * CenterLookupRadius) * (2 * CenterLookupRadius)

\* C11: when no center can be resolved (the search term matches no area, or
\* no area lies within 2000 m of the coordinates), findAdjacentAreas returns
\* null without raising and /areas/adjacent answers 200 with center null,
\* an empty adjacent list and count 0.
C11_NoCenterAnswer ==
  (op = "GET /areas/adjacent" /\ adjacentRequestValid /\ noCenterResolvable)
    => /\ out.status = 200
       /\ ~out.found
       /\ out.center = NoArea
       /\ out.adjacent = << >>
       /\ out.count = 0

\* reached: rows match the search term in SQL but all score 0, and the
\* answer is the no-center body
C11_Witness ==
  /\ op = "GET /areas/adjacent"
  /\ adjacentRequestValid
  /\ arg.query # << >>
  /\ \E row \in Range(db) : searchWhere(row, arg.query)
  /\ noCenterResolvable
  /\ out.status = 200
  /\ ~out.found
  /\ out.count = 0

\* C13: with grouping, every area in the response of /areas/nearby carries
\* all postal codes of all stored rows of that area.
C13_GroupedAreaHasAllCodes ==
  (op = "GET /areas/nearby" /\ arg.group /\ out.status = 200)
    => \A i \in 1..Len(out.areas) :
         \A row \in Range(db) :
           (sameArea(row, out.areas[i]) /\ truthy(row.postal_code))
             => SeqContains(out.areas[i].postal_codes, row.postal_code)

----------------------------------------------------------------------------
(* groupAreaResults on every short list of results.  The lists are those   *)
(* its callers pass: every row carries a distance (findAreasNearby,        *)
(* findAreasContaining) or none does (searchAreasByName).                  *)

MaxResults == 3

GroupAreas == { << "node", 1 >>, << "way", 1 >> }

GroupCodes == {Null, "", "00100", "00200"}

GroupDistances == {2, 5}

GroupResult(area, code, distance) ==
  [id |-> 0, osm_type |-> area[1], osm_id |-> area[2], center |-> Pt(0, 0),
   postal_code |-> code, distance_meters |-> distance]

GroupInputs(distances) ==
  {GroupResult(a, c, d) : a \in GroupAreas, c \in GroupCodes, d \in distances}

InitGroup ==
  /\ db = << >>
  /\ op = "init"
  /\ arg = NoArg
  /\ out = NoOut

Group(results) ==
  /\ op = "init"
  /\ op' = "group"
  /\ arg' = [results |-> results]
  /\ out' = [grouped |-> groupAreaResults(results)]
  /\ UNCHANGED db

GroupCall ==
  /\ op = "init"
  /\ \E n \in 0..MaxResults, distances \in {GroupDistances, {Undefined}} :
       \E results \in [1..n -> GroupInputs(distances)] : Group(results)

NextGroup == GroupCall \/ Respond

SpecGroup == InitGroup /\ [][NextGroup]_vars

\* the rows of the input that belong to the area of group g
rowsOfGroup(g) == SelectSeq(arg.results, LAMBDA r : sameArea(r, g))

RECURSIVE firstSeen(_)
\* a list without its repeated elements, each kept at its first place
firstSeen(list) ==
  IF list = << >> THEN << >>
  ELSE LET front == firstSeen(SubSeq(list, 1, Len(list) - 1))
           last == list[Len(list)]
       IN  IF SeqContains(front, last) THEN front ELSE Append(front, last)

\* the postal codes of a list of rows that satisfy keep, in row order
codesOf(rows, keep(_)) ==
  LET kept == SelectSeq(rows, LAMBDA r : keep(r.postal_code))
  IN  [i \in 1..Len(kept) |-> kept[i].postal_code]

\* the least distance carried by the rows, Undefined when none carries one
minDistance(rows) ==
  LET ds == {rows[i].distance_meters : i \in 1..Len(rows)} \ {Undefined}
  IN  IF ds = {} THEN Undefined ELSE SetMin(ds)

\* one group per distinct (osm_type, osm_id), each with the least distance
\* of its rows, in ascending order of that distance (none counts as 0)
groupsPerAreaSorted ==
  /\ \A r \in Range(arg.results) :
       Cardinality({k \in 1..Len(out.grouped) : sameArea(out.grouped[k], r)})
         = 1
  /\ \A k \in 1..Len(out.grouped) :
       /\ rowsOfGroup(out.grouped[k]) # << >>
       /\ out.grouped[k].distance_meters
            = minDistance(rowsOfGroup(out.grouped[k]))
  /\ \A j, k \in 1..Len(out.grouped) :
       j < k => distanceOrZero(out.grouped[j]) <= distanceOrZero(out.grouped[k])

\* C12: groupAreaResults returns exactly one entry per distinct
\* (osm_type, osm_id), whose postal_codes is the list of the non-null postal
\* codes of the area's rows without duplicates in first-seen order, whose
\* distance is the least among those rows, sorted by that distance ascending.
C12_GroupsWithNonNullCodes ==
  op = "group" =>
    /\ groupsPerAreaSorted
    /\ \A k \in 1..Len(out.grouped) :
         out.grouped[k].postal_codes
           = firstSeen(codesOf(rowsOfGroup(out.grouped[k]),
                               LAMBDA c : c # Null))

\* C12 as amended: the postal codes collected are the non-null, non-empty
\* ones.
C12_GroupsWithNonEmptyCodes ==
  op = "group" =>
    /\ groupsPerAreaSorted
    /\ \A k \in 1..Len(out.grouped) :
         out.grouped[k].postal_codes
           = firstSeen(codesOf(rowsOfGroup(out.grouped[k]), truthy))

\* reached: two areas, the one seen second is nearer and comes first; the
\* area seen first has a row with the empty postal code and one with a
\* real code, and only the real code is listed
C12_Witness ==
  /\ op = "group"
  /\ Len(arg.results) = 3
  /\ Len(out.grouped) = 2
  /\ sameArea(out.grouped[2], arg.results[1])
  /\ out.grouped[1].distance_meters < out.grouped[2].distance_meters
  /\ \E i, j \in 1..3 :
       /\ i # j
       /\ sameArea(arg.results[i], arg.results[j])
       /\ arg.results[i].postal_code = ""
       /\ arg.results[j].postal_code = "00100"
       /\ sameArea(out.grouped[2], arg.results[i])
       /\ out.grouped[2].postal_codes = << "00100" >>

----------------------------------------------------------------------------
(* src/lib/osm-parser.ts : buildPolygonFromRelation, joinWays,             *)
(* ensureClosed.  A coordinate is << lng, lat >> in units of 0.5e-9        *)
(* degrees, so that two coordinates can differ and still be equal for      *)
(* coordsEqual.  A way without geometry has the empty list of coordinates: *)
(* the code treats both by the same test (!coords || coords.length < 2).   *)

MaxMembers == 2

\* Math.abs(a - b) < 1e-9, in units of 0.5e-9 degrees
CoordTolerance == 2

\* ring.length >= 4
MinRingLength == 4

AbsDiff(a, b) == IF a >= b THEN a - b ELSE b - a

coordsEqual(a, b) ==
  AbsDiff(a[1], b[1]) < CoordTolerance /\ AbsDiff(a[2], b[2]) < CoordTolerance

\* variant of ensureClosed: the ring is returned as it is
ensureClosedNot(ring) == ring

ensureClosed(ring) ==
  IF Len(ring) < 2 THEN ring
  ELSE IF ~coordsEqual(ring[1], ring[Len(ring)]) THEN Append(ring, ring[1])
  ELSE ring

RemoveAt(list, i) == SubSeq(list, 1, i - 1) \o SubSeq(list, i + 1, Len(list))

\* coords.slice(0, -1)
butLast(coords) == SubSeq(coords, 1, Len(coords) - 1)

\* variant of joinAtEnd: the way that touches with its end is appended
\* without being reversed
joinAtEndUnreversed(ring, coords) == ring \o butLast(coords)

\* the ring extended by a way whose end touches the ring's end
joinAtEnd(ring, coords) == ring \o Reverse(butLast(coords))

RECURSIVE scanWays(_, _, _, _)
\* the for loop over remaining from its i-th element on: the ring extended
\* by the first way that connects, the ways left, the geometries (reverse()
\* works in place) and whether a way connected
scanWays(ring, remaining, i, geoms) ==
  IF i > Len(remaining)
  THEN [ring |-> ring, remaining |-> remaining, geoms |-> geoms,
        extended |-> FALSE]
  ELSE LET ref == remaining[i]
           coords == geoms[ref]
           rest == RemoveAt(remaining, i)
           ringStart == ring[1]
           ringEnd == ring[Len(ring)]
           wayStart == coords[1]
           wayEnd == coords[Len(coords)]
       IN  IF Len(coords) < 2 THEN scanWays(ring, rest, i, geoms)
           ELSE IF coordsEqual(ringEnd, wayStart)
           THEN [ring |-> ring \o Tail(coords), remaining |-> rest,
                 geoms |-> geoms, extended |-> TRUE]
           ELSE IF coordsEqual(ringEnd, wayEnd)
           THEN [ring |-> joinAtEnd(ring, coords), remaining |-> rest,
                 geoms |-> geoms, extended |-> TRUE]
           ELSE IF coordsEqual(ringStart, wayEnd)
           THEN [ring |-> butLast(coords) \o ring, remaining |-> rest,
                 geoms |-> geoms, extended |-> TRUE]
           ELSE IF coordsEqual(ringStart, wayStart)
           THEN [ring |-> butLast(Reverse(coords)) \o ring,
                 remaining |-> rest,
                 geoms |-> [geoms EXCEPT ![ref] = Reverse(coords)],
                 extended |-> TRUE]
           ELSE scanWays(ring, remaining, i + 1, geoms)

RECURSIVE extendRing(_, _, _)
\* while (extended && remaining.size > 0)
extendRing(ring, remaining, geoms) ==
  IF remaining = << >>
  THEN [ring |-> ring, remaining |-> remaining, geoms |-> geoms]
  ELSE LET r == scanWays(ring, remaining, 1, geoms)
       IN  IF r.extended THEN extendRing(r.ring, r.remaining, r.geoms)
           ELSE [ring |-> r.ring, remaining |-> r.remaining,
                 geoms |-> r.geoms]

RECURSIVE joinFrom(_, _, _)
\* while (remaining.size > 0)
joinFrom(remaining, geoms, rings) ==
  IF remaining = << >> THEN [rings |-> rings, geoms |-> geoms]
  ELSE LET firstCoords == geoms[Head(remaining)]
       IN  IF Len(firstCoords) < 2 THEN joinFrom(Tail(remaining), geoms, rings)
           ELSE LET r == extendRing(firstCoords, Tail(remaining), geoms)
                IN  joinFrom(r.remaining, r.geoms,
                             IF Len(r.ring) >= MinRingLength
                             THEN Append(rings, r.ring) ELSE rings)

\* joinWays(wayRefs, wayGeometries): remaining is new Set(wayRefs)
joinWays(wayRefs, geoms) == joinFrom(firstSeen(wayRefs), geoms, << >>)

\* the way references of the members with one of the roles
wayRefsOf(members, roles) ==
  LET picked == SelectSeq(members,
                  LAMBDA m : m.type = "way" /\ m.role \in roles)
  IN  [i \in 1..Len(picked) |-> picked[i].id]

\* the joined rings of at least 4 coordinates, closed
closedRings(joined) ==
  LET kept == SelectSeq(joined, LAMBDA ring : Len(ring) >= MinRingLength)
  IN  [i \in 1..Len(kept) |-> ensureClosed(kept[i])]

\* variant of multiPolygonOf: the holes are attached to the first outer ring
multiPolygonWithHoles(outerRings, innerRings) ==
  Geometry("MultiPolygon",
           [i \in 1..Len(outerRings) |->
              IF i = 1 THEN << outerRings[i] >> \o innerRings
              ELSE << outerRings[i] >>])

\* outerRings.map((outer) => [outer])
multiPolygonOf(outerRings, innerRings) ==
  Geometry("MultiPolygon",
           [i \in 1..Len(outerRings) |-> << outerRings[i] >>])

\* buildPolygonFromRelation: polygon is NoPolygon for null; outerRings and
\* innerRings are its two local lists, geoms the way geometries it leaves
buildPolygonFromRelation(members, wayGeometries) ==
  LET outerJoined == joinWays(wayRefsOf(members, {"outer", ""}),
                              wayGeometries)
      outerRings == closedRings(outerJoined.rings)
      innerJoined == joinWays(wayRefsOf(members, {"inner"}),
                              outerJoined.geoms)
      innerRings == closedRings(innerJoined.rings)
      polygon ==
        IF Len(outerRings) = 0 THEN NoPolygon
        ELSE IF Len(outerRings) = 1
        THEN Geometry("Polygon", << outerRings[1] >> \o innerRings)
        ELSE multiPolygonOf(outerRings, innerRings)
  IN  [polygon |-> polygon, outerJoined |-> outerJoined.rings,
       outerRings |-> outerRings, innerRings |-> innerRings,
       geoms |-> innerJoined.geoms]

\* the ways of the extract: the edge P0-P1 (way 1), the chains that close
\* it over P2 in one step (way 2) or two (ways 3 and 4; way 4 starts within
\* the tolerance of P0), a closed square (5), an open chain of four
\* coordinates (6), a closed ring inside the square (7) and a way whose
\* geometry is missing (8)
WayGeometries ==
  << << <<0, 0>>, <<10, 0>> >>,
     << <<10, 0>>, <<10, 10>>, <<0, 0>> >>,
     << <<10, 0>>, <<10, 10>> >>,
     << <<1, 0>>, <<10, 10>> >>,
     << <<20, 20>>, <<40, 20>>, <<40, 40>>, <<20, 40>>, <<20, 20>> >>,
     << <<50, 0>>, <<60, 0>>, <<60, 10>>, <<50, 10>> >>,
     << <<25, 25>>, <<30, 25>>, <<30, 30>>, <<25, 25>> >>,
     << >> >>

WayRefs == 1..Len(WayGeometries)

\* the members a relation is made of: the chains and the open chain as
\* outer ways, the square with the empty role, the small ring and the open
\* chain as inner ways, a way with another role and a member of type node
Members ==
  {[type |-> "way", role |-> "outer", id |-> w] : w \in {1, 2, 3, 4, 6, 8}}
    \cup {[type |-> "way", role |-> "", id |-> 5],
          [type |-> "way", role |-> "inner", id |-> 7],
          [type |-> "way", role |-> "inner", id |-> 6],
          [type |-> "way", role |-> "subarea", id |-> 5],
          [type |-> "node", role |-> "outer", id |-> 5]}

\* the chains are stored in either direction
StoredGeometries ==
  {[w \in WayRefs |->
      IF w \in flipped THEN Reverse(WayGeometries[w])
      ELSE WayGeometries[w]] : flipped \in SUBSET {1, 2, 3, 4}}

InitAssembler ==
  /\ db \in StoredGeometries
  /\ op = "init"
  /\ arg = NoArg
  /\ out = NoOut

\* one relation is assembled; the way geometries are shared by all calls
BuildPolygon(members) ==
  /\ op = "init"
  /\ op' = "buildPolygonFromRelation"
  /\ arg' = [members |-> members, geoms |-> db]
  /\ LET r == buildPolygonFromRelation(members, db)
     IN  /\ out' = [polygon |-> r.polygon, outerJoined |-> r.outerJoined,
                    outerRings |-> r.outerRings,
                    innerRings |-> r.innerRings]
         /\ db' = r.geoms

Way(role, id) == [type |-> "way", role |-> role, id |-> id]

\* the members of S in every order
Orders(S) ==
  {m \in [1..Cardinality(S) -> S] : \A i, j \in 1..Cardinality(S) :
                                      m[i] = m[j] => i = j}

\* the relations of the extract: every list of up to MaxMembers members,
\* the cycle of three chains and two outer rings with an inner ring, in
\* every order
Relations ==
  UNION {[1..n -> Members] : n \in 0..MaxMembers}
    \cup Orders({Way("outer", 1), Way("outer", 3), Way("outer", 4)})
    \cup Orders({Way("", 5), Way("outer", 6), Way("inner", 7)})

BuildPolygonCall ==
  /\ op = "init"
  /\ \E members \in Relations : BuildPolygon(members)

\* the next relation is read
NextRelation ==
  /\ op # "init"
  /\ op' = "init"
  /\ arg' = NoArg
  /\ out' = NoOut
  /\ UNCHANGED db

NextAssembler == BuildPolygonCall \/ NextRelation

SpecAssembler == InitAssembler /\ [][NextAssembler]_vars

----------------------------------------------------------------------------
(* The assembler *)

\* every ring of a Polygon or MultiPolygon
allRings(polygon) ==
  IF polygon.type = "Polygon" THEN Range(polygon.coordinates)
  ELSE UNION {Range(polygon.coordinates[i]) :
                i \in 1..Len(polygon.coordinates)}

\* C14: every ring (outer and hole) of a Polygon or MultiPolygon returned
\* by buildPolygonFromRelation has its first and last coordinate equal
\* within 1e-9 degrees and at least 4 coordinates.
C14_RingsClosed ==
  (op = "buildPolygonFromRelation" /\ out.polygon # NoPolygon)
    => \A ring \in allRings(out.polygon) :
         /\ Len(ring) >= 4
         /\ coordsEqual(ring[1], ring[Len(ring)])

\* reached: the open chain of four coordinates is the outer ring, closed by
\* a fifth coordinate, and the polygon has a hole
C14_Witness ==
  /\ op = "buildPolygonFromRelation"
  /\ out.polygon # NoPolygon
  /\ out.polygon.type = "Polygon"
  /\ Len(out.polygon.coordinates) = 2
  /\ out.polygon.coordinates[1] = Append(WayGeometries[6], WayGeometries[6][1])

\* the chains of the outer members, as the call found them
outerChains ==
  LET refs == firstSeen(wayRefsOf(arg.members, {"outer", ""}))
  IN  [i \in 1..Len(refs) |-> arg.geoms[refs[i]]]

\* the two ends of chain i: << i, 1 >> its start, << i, 2 >> its end
chainEnd(chains, e) ==
  IF e[2] = 1 THEN chains[e[1]][1] ELSE chains[e[1]][Len(chains[e[1]])]

chainEnds(chains) == (1..Len(chains)) \X {1, 2}

RECURSIVE touching(_, _)
\* the chains linked to those of S by a shared end
touching(chains, S) ==
  LET T == S \cup {j \in 1..Len(chains) :
                     \E i \in S, a, b \in {1, 2} :
                       coordsEqual(chainEnd(chains, << i, a >>),
                                   chainEnd(chains, << j, b >>))}
  IN  IF T = S THEN S ELSE touching(chains, T)

\* no coordinate of the chains occurs twice, but for the ends that meet
meetsOnlyAtEnds(chains) ==
  \A i, j \in 1..Len(chains) :
    \A k \in 1..Len(chains[i]), l \in 1..Len(chains[j]) :
      (coordsEqual(chains[i][k], chains[j][l]) /\ << i, k >> # << j, l >>)
        => (k \in {1, Len(chains[i])} /\ l \in {1, Len(chains[j])})

\* chains of at least 2 coordinates whose ends pair up (each end meets
\* exactly one other end) into one cycle that meets itself nowhere else
simpleClosedCycle(chains) ==
  /\ Len(chains) >= 1
  /\ \A i \in 1..Len(chains) : Len(chains[i]) >= 2
  /\ \A e \in chainEnds(chains) :
       Cardinality({f \in chainEnds(chains) \ {e} :
                      coordsEqual(chainEnd(chains, e),
                                  chainEnd(chains, f))}) = 1
  /\ meetsOnlyAtEnds(chains)
  /\ touching(chains, {1}) = 1..Len(chains)

RECURSIVE vertexCount(_)
\* the vertices of a cycle of chains: every chain without its end
vertexCount(chains) ==
  IF chains = << >> THEN 0
  ELSE Len(Head(chains)) - 1 + vertexCount(Tail(chains))

\* the chain lies in the closed ring from some place on, forward or
\* backward, the ring taken round
chainInRing(chain, ring) ==
  LET n == Len(ring) - 1
      at(k) == ring[((k - 1) % n) + 1]
  IN  \E start \in 1..n :
        \/ \A i \in 1..Len(chain) : coordsEqual(at(start + i - 1), chain[i])
        \/ \A i \in 1..Len(chain) :
             coordsEqual(at(start + i - 1), chain[Len(chain) + 1 - i])

\* C15: outer chains whose endpoints pair up into one simple closed cycle
\* are joined into exactly one closed ring that holds every coordinate of
\* every chain in cycle order, each shared endpoint once, whatever the
\* order and the directions of the chains; the chains [[0,0],[1,0]] and
\* [[1,0],[1,1],[0,0]] give the ring of 4 coordinates.
C15_CycleJoinedIntoOneRing ==
  op = "buildPolygonFromRelation" =>
    /\ (simpleClosedCycle(outerChains) /\ vertexCount(outerChains) >= 3)
         => /\ Len(out.outerJoined) = 1
            /\ LET ring == out.outerJoined[1]
               IN  /\ coordsEqual(ring[1], ring[Len(ring)])
                   /\ Len(ring) = vertexCount(outerChains) + 1
                   /\ \A i \in 1..Len(outerChains) :
                        chainInRing(outerChains[i], ring)
    /\ outerChains = << WayGeometries[1], WayGeometries[2] >>
         => out.outerJoined
              = << << <<0, 0>>, <<10, 0>>, <<10, 10>>, <<0, 0>> >> >>

\* reached: three chains close a cycle, the first of them is extended at
\* its start by a chain that is stored the other way round
C15_Witness ==
  /\ op = "buildPolygonFromRelation"
  /\ Len(outerChains) = 3
  /\ simpleClosedCycle(outerChains)
  /\ coordsEqual(outerChains[1][1], outerChains[2][1])
  /\ Len(out.outerJoined) = 1
  /\ Len(out.outerJoined[1]) = 4

\* C16: buildPolygonFromRelation returns null when no outer ring is joined,
\* a Polygon whose holes are all joined inner rings when exactly one outer
\* ring is joined, and a MultiPolygon with one element per outer ring, none
\* with a hole, when several are joined.
C16_ShapeByOuterRings ==
  op = "buildPolygonFromRelation" =>
    /\ Len(out.outerRings) = 0 => out.polygon = NoPolygon
    /\ Len(out.outerRings) = 1
         => /\ out.polygon # NoPolygon
            /\ out.polygon.type = "Polygon"
            /\ out.polygon.coordinates
                 = << out.outerRings[1] >> \o out.innerRings
    /\ Len(out.outerRings) > 1
         => /\ out.polygon # NoPolygon
            /\ out.polygon.type = "MultiPolygon"
            /\ Len(out.polygon.coordinates) = Len(out.outerRings)
            /\ \A i \in 1..Len(out.outerRings) :
                 out.polygon.coordinates[i] = << out.outerRings[i] >>

\* reached: two outer rings and a joined inner ring give a MultiPolygon of
\* two elements of one ring each
C16_Witness ==
  /\ op = "buildPolygonFromRelation"
  /\ Len(out.outerRings) = 2
  /\ Len(out.innerRings) = 1
  /\ out.polygon.type = "MultiPolygon"
  /\ \A i \in 1..2 : Len(out.polygon.coordinates[i]) = 1

----------------------------------------------------------------------------
(* src/lib/search.ts : the text scores.  A score is an exact fraction      *)
(* << numerator, denominator >> in lowest terms with a positive            *)
(* denominator; the code computes the same expressions in double           *)
(* precision.                                                              *)

RECURSIVE GCD(_, _)
GCD(a, b) == IF b = 0 THEN a ELSE GCD(b, a % b)

Rat(n, d) ==
  LET g == GCD(IF n < 0 THEN -n ELSE n, d)
  IN  << n \div g, d \div g >>

RatAdd(a, b) == Rat(a[1] * b[2] + b[1] * a[2], a[2] * b[2])

RatSub(a, b) == Rat(a[1] * b[2] - b[1] * a[2], a[2] * b[2])

RatMul(a, b) == Rat(a[1] * b[1], a[2] * b[2])

RatLess(a, b) == a[1] * b[2] < b[1] * a[2]

RatLeq(a, b) == a[1] * b[2] <= b[1] * a[2]

RatMax(a, b) == IF RatLess(a, b) THEN b ELSE a

RatMin(a, b) == IF RatLess(b, a) THEN b ELSE a

Zero == Rat(0, 1)

One == Rat(1, 1)

\* a number of hundredths
Pct(n) == Rat(n, 100)

RECURSIVE findMatches(_, _, _, _, _)
\* the first loop of jaroSimilarity from index i of s1 on: the pairs
\* << i, j >> matched, s2Matches being the set of matched indices of s2
findMatches(s1, s2, matchWindow, i, pairs) ==
  IF i > Len(s1) THEN pairs
  ELSE LET taken == {p[2] : p \in Range(pairs)}
           start == IF i - matchWindow > 1 THEN i - matchWindow ELSE 1
           end == Min(i + matchWindow, Len(s2))
           free == {j \in start..end : j \notin taken /\ s1[i] = s2[j]}
       IN  findMatches(s1, s2, matchWindow, i + 1,
                       IF free = {} THEN pairs
                       ELSE Append(pairs, << i, SetMin(free) >>))

RECURSIVE SortedSeq(_)
\* the elements of a set of integers in ascending order
SortedSeq(S) ==
  IF S = {} THEN << >>
  ELSE LET m == SetMin(S) IN << m >> \o SortedSeq(S \ {m})

\* the result of jaroSimilarity once the matched pairs are known
jaroOfMatches(s1, s2, pairs) ==
  LET matches == Len(pairs)
      \* the matched characters of each string in the order of the string
      in1 == [k \in 1..matches |-> s1[pairs[k][1]]]
      js == SortedSeq({pairs[k][2] : k \in 1..matches})
      in2 == [k \in 1..matches |-> s2[js[k]]]
      transpositions == Cardinality({k \in 1..matches : in1[k] # in2[k]})
  IN  IF matches = 0 THEN Zero
      ELSE RatMul(Rat(1, 3),
             RatAdd(RatAdd(Rat(matches, Len(s1)), Rat(matches, Len(s2))),
                    Rat(2 * matches - transpositions, 2 * matches)))

\* Math.max(0, Math.floor(Math.max(s1.length, s2.length) / 2) - 1)
matchWindowOf(s1, s2) ==
  LET longer == IF Len(s1) > Len(s2) THEN Len(s1) ELSE Len(s2)
      half == (longer \div 2) - 1
  IN  IF half > 0 THEN half ELSE 0

\* jaroSimilarity(s1, s2)
jaroSimilarity(s1, s2) ==
  IF s1 = s2 THEN One
  ELSE IF Len(s1) = 0 \/ Len(s2) = 0 THEN Zero
  ELSE jaroOfMatches(s1, s2,
                     findMatches(s1, s2, matchWindowOf(s1, s2), 1, << >>))

RECURSIVE commonPrefix(_, _, _)
\* the number of leading characters s1 and s2 share, up to maxPrefix
commonPrefix(s1, s2, maxPrefix) ==
  IF maxPrefix = 0 \/ s1[1] # s2[1] THEN 0
  ELSE 1 + commonPrefix(Tail(s1), Tail(s2), maxPrefix - 1)

\* jaro + prefixLength * prefixScale * (1 - jaro) with prefixScale 0.1
withPrefixBonus(jaro, prefixLength) ==
  RatAdd(jaro, RatMul(Rat(prefixLength, 10), RatSub(One, jaro)))

\* jaroWinklerSimilarity(s1, s2)
jaroWinklerSimilarity(s1, s2) ==
  withPrefixBonus(jaroSimilarity(s1, s2),
                  commonPrefix(s1, s2, Min(4, Min(Len(s1), Len(s2)))))

\* generateNgrams(text, 3)
generateNgrams(text) ==
  LET padded == << " ", " " >> \o text \o << " ", " " >>
  IN  {SubSeq(padded, i, i + 2) : i \in 1..(Len(padded) - 2)}

\* intersection.size / union.size
jaccard(ngrams1, ngrams2) ==
  IF ngrams1 \cup ngrams2 = {} THEN Zero
  ELSE Rat(Cardinality(ngrams1 \cap ngrams2), Cardinality(ngrams1 \cup ngrams2))

\* ngramSimilarity(s1, s2, 3)
ngramSimilarity(s1, s2) == jaccard(generateNgrams(s1), generateNgrams(s2))

RECURSIVE splitWords(_, _)
\* text.split(/\s+/): word is the word being read
splitWords(text, word) ==
  IF text = << >> THEN << word >>
  ELSE IF text[1] = " "
       THEN IF Len(text) >= 2 /\ text[2] = " "
            THEN splitWords(Tail(text), word)
            ELSE << word >> \o splitWords(Tail(text), << >>)
       ELSE splitWords(Tail(text), Append(word, text[1]))

\* variant of prefixScore: the penalty is added
prefixScoreRising(normalizedQuery, normalizedTarget) ==
  RatAdd(Pct(95),
         RatMin(Pct(15), Pct(2 * (Len(normalizedTarget) - Len(normalizedQuery)))))

\* the score of a target that starts with the query
prefixScore(normalizedQuery, normalizedTarget) ==
  RatSub(Pct(95),
         RatMin(Pct(15), Pct(2 * (Len(normalizedTarget) - Len(normalizedQuery)))))

\* variant of closeEnough: every combined score is accepted
closeEnoughAlways(combinedFuzzy) == TRUE

\* combinedFuzzy >= 0.65
closeEnough(combinedFuzzy) == RatLeq(Pct(65), combinedFuzzy)

Scored(rule, score) == [rule |-> rule, score |-> score]

RECURSIVE wordScore(_, _)

\* the word rule at the first of the words, wordJW being its similarity
wordScoreAt(normalizedQuery, words, wordJW) ==
  IF RatLeq(Pct(85), wordJW)
  THEN Scored("word", RatAdd(Pct(50), RatMul(RatSub(wordJW, Pct(85)), Rat(2, 1))))
  ELSE wordScore(normalizedQuery, Tail(words))

\* the last loop of fuzzyScore: the first word within 0.85 of the query
wordScore(normalizedQuery, words) ==
  IF words = << >> THEN Scored("none", Zero)
  ELSE wordScoreAt(normalizedQuery, words,
                   jaroWinklerSimilarity(normalizedQuery, words[1]))

\* the typo rules of fuzzyScore for a combined score
typoScore(normalizedQuery, targetWords, combinedFuzzy) ==
  IF closeEnough(combinedFuzzy)
  THEN Scored("combined", RatAdd(Pct(30), RatMul(combinedFuzzy, Pct(35))))
  ELSE wordScore(normalizedQuery, targetWords)

\* jwScore * 0.6 + ngScore * 0.4
combinedFuzzyOf(jwScore, ngScore) ==
  RatAdd(RatMul(jwScore, Rat(6, 10)), RatMul(ngScore, Rat(4, 10)))

\* the rules of fuzzyScore on the normalized strings; sameLower is
\* target.toLowerCase() === query.toLowerCase()
scoreNormalized(normalizedQuery, normalizedTarget, sameLower, targetWords) ==
  IF normalizedTarget = normalizedQuery THEN Scored("exact", One)
  ELSE IF sameLower THEN Scored("case", Pct(99))
  ELSE IF startsWith(normalizedTarget, normalizedQuery)
    THEN Scored("prefix", prefixScore(normalizedQuery, normalizedTarget))
  ELSE IF \E k \in 1..Len(targetWords) :
            startsWith(targetWords[k], normalizedQuery)
    THEN Scored("wordPrefix", Pct(85))
  ELSE IF includes(normalizedTarget, normalizedQuery)
    THEN Scored("contains",
                RatMax(Pct(60),
                       RatSub(Pct(75),
                              Pct(2 * indexOf(normalizedTarget, normalizedQuery)))))
  ELSE typoScore(normalizedQuery, targetWords,
                 combinedFuzzyOf(
                   jaroWinklerSimilarity(normalizedQuery, normalizedTarget),
                   ngramSimilarity(normalizedQuery, normalizedTarget)))

\* the rules of fuzzyScore on the normalized strings, the target split
\* into its words
scoreWords(normalizedQuery, normalizedTarget, sameLower) ==
  scoreNormalized(normalizedQuery, normalizedTarget, sameLower,
                  splitWords(normalizedTarget, << >>))

\* fuzzyScore(query, target) with the rule that decided, "exact" .. "none"
fuzzyMatch(query, target) ==
  scoreWords(normalizeText(query), normalizeText(target),
             toLowerCase(target) = toLowerCase(query))

\* fuzzyScore(query, target)
fuzzyScore(query, target) == fuzzyMatch(query, target).score

\* postalScore(query, postalCode); postalCode is a stored postal code
postalScore(query, postalCode) ==
  LET queryLower == toLowerCase(query)
      postalLower == toLowerCase(chars(postalCode))
  IN  IF ~truthy(postalCode) THEN Zero
      ELSE IF postalLower = queryLower THEN One
      ELSE IF startsWith(postalLower, queryLower)
           THEN RatAdd(Pct(80),
                       RatMul(Rat(Len(queryLower), Len(postalLower)), Pct(15)))
      ELSE Zero

----------------------------------------------------------------------------
(* The scoring functions applied to bounded texts.                         *)

MaxTextLen == 3

FuzzyAlphabet == {"a", "b", "A:", " "}

\* every text over the alphabet of at most MaxTextLen characters
Texts == UNION {[1..k -> FuzzyAlphabet] : k \in 0..MaxTextLen}

kalio == << "k", "a", "l", "i", "o" >>

\* (query, target) pairs longer than MaxTextLen
FuzzySamples ==
  { << kalio, Kallio >>,
    << kalio, << "a", "b", " " >> \o Kallio >>,
    << << "k", "a", "l", "l", "o", "i" >>, Kallio >>,
    << << "K", "A:", "b", "b", "i" >>, << "k", "a", "b", "b", "i", " " >> >>,
    << << "l", "i", "o" >>, Kallio >>,
    << << "b", "a", "l", "l", "i", "o" >>, Kallio \o << " ", "a" >> >> }

InitFuzzy ==
  /\ db = << >>
  /\ op = "init"
  /\ arg = NoArg
  /\ out = NoOut

FuzzyScore(query, target) ==
  /\ op = "init"
  /\ op' = "fuzzyScore"
  /\ arg' = [query |-> query, target |-> target]
  /\ out' = fuzzyMatch(query, target)
  /\ UNCHANGED db

FuzzyScoreCall ==
  /\ op = "init"
  /\ \E query \in Texts, target \in Texts : FuzzyScore(query, target)

FuzzySampleCall ==
  /\ op = "init"
  /\ \E pair \in FuzzySamples : FuzzyScore(pair[1], pair[2])

NextFuzzy == FuzzyScoreCall \/ FuzzySampleCall \/ Respond

SpecFuzzy == InitFuzzy /\ [][NextFuzzy]_vars

\* C17: fuzzyScore is 1.0 exactly when the normalized query equals the
\* normalized target and is below 1.0 otherwise; fuzzyScore("kalio",
\* "Kallio") lies strictly between 0.5 and 1.0.
C17_ExactOnlyWhenNormalizedEqual ==
  op = "fuzzyScore" =>
    /\ (out.score = One) <=> (normalizeText(arg.query) = normalizeText(arg.target))
    /\ normalizeText(arg.query) # normalizeText(arg.target)
         => RatLess(out.score, One)
    /\ (arg.query = kalio /\ arg.target = Kallio)
         => RatLess(Rat(1, 2), out.score) /\ RatLess(out.score, One)

C17_Witness ==
  /\ op = "fuzzyScore"
  /\ arg.query = kalio
  /\ arg.target = Kallio
  /\ out.rule = "combined"
  /\ RatLess(Rat(1, 2), out.score)

\* the precondition of C18 for a scored pair: no common padded 3-gram and
\* Jaro-Winkler below 0.85 on every word of the normalized target
noGramNoCloseWord ==
  LET normalizedQuery == normalizeText(arg.query)
      normalizedTarget == normalizeText(arg.target)
      targetWords == splitWords(normalizedTarget, << >>)
  IN  /\ generateNgrams(normalizedQuery) \cap generateNgrams(normalizedTarget) = {}
      /\ \A k \in 1..Len(targetWords) :
           RatLess(jaroWinklerSimilarity(normalizedQuery, targetWords[k]), Pct(85))

\* C18 as stated: with no common padded 3-gram and no word within
\* Jaro-Winkler 0.85 of the query, fuzzyScore is 0, also for short or empty
\* queries that occur inside the target.
C18_ZeroWithoutOverlap ==
  (op = "fuzzyScore" /\ noGramNoCloseWord) => out.score = Zero

\* C18 amended: with no common padded 3-gram, no word within Jaro-Winkler
\* 0.85 of the query and the normalized query not occurring in the
\* normalized target, fuzzyScore is 0.
C18_ZeroWithoutOverlapOrOccurrence ==
  (/\ op = "fuzzyScore"
   /\ noGramNoCloseWord
   /\ ~includes(normalizeText(arg.target), normalizeText(arg.query)))
    => out.score = Zero

C18_Witness ==
  /\ op = "fuzzyScore"
  /\ noGramNoCloseWord
  /\ ~includes(normalizeText(arg.target), normalizeText(arg.query))
  /\ normalizeText(arg.query) # << >>
  /\ normalizeText(arg.target) # << >>
  /\ jaroSimilarity(normalizeText(arg.query), normalizeText(arg.target)) # Zero
  /\ out.score = Zero

----------------------------------------------------------------------------
(* src/lib/search.ts : parseQuery and calculateTextScore.  A part of the   *)
(* parsed query that is null is the empty text: a part that is present is  *)
(* never empty.                                                            *)

RECURSIVE joinWords(_)
\* tokens.join(" ")
joinWords(tokens) ==
  IF tokens = << >> THEN << >>
  ELSE IF Len(tokens) = 1 THEN tokens[1]
  ELSE tokens[1] \o << " " >> \o joinWords(Tail(tokens))

\* /^\d/.test(token)
startsWithDigit(token) == token # << >> /\ isDigit(token[1])

\* /^[\d]{2,10}$/.test(text)
isPostalDigits(text) ==
  /\ Len(text) >= 2
  /\ Len(text) <= 10
  /\ \A i \in 1..Len(text) : isDigit(text[i])

\* the parts parseQuery takes from two or more tokens; a single token is
\* not split
splitParts(tokens) ==
  IF Len(tokens) > 1 /\ startsWithDigit(tokens[Len(tokens)])
    THEN [postalPart |-> tokens[Len(tokens)],
          namePart |-> joinWords(SubSeq(tokens, 1, Len(tokens) - 1))]
  ELSE IF Len(tokens) > 1 /\ startsWithDigit(tokens[1])
    THEN [postalPart |-> tokens[1], namePart |-> joinWords(Tail(tokens))]
  ELSE [postalPart |-> << >>, namePart |-> << >>]

\* the parsed query of a trimmed query and its parts
parsedOf(trimmed, parts) ==
  LET isPostalOnly == parts.namePart = << >> /\ isPostalDigits(trimmed)
  IN  [fullQuery |-> trimmed,
       namePart |-> parts.namePart,
       postalPart |-> IF isPostalOnly THEN trimmed ELSE parts.postalPart,
       isPostalOnly |-> isPostalOnly]

\* the parsed query of a trimmed query
parseTrimmed(trimmed) ==
  parsedOf(trimmed, splitParts(splitWords(trimmed, << >>)))

parseQuery(query) == parseTrimmed(trim(query))

\* parsed.namePart ?? parsed.fullQuery
queryForName(parsed) ==
  IF parsed.namePart # << >> THEN parsed.namePart ELSE parsed.fullQuery

RECURSIVE bestNameScore(_, _, _)
\* the loop over the translated names: the best score so far is kept
bestNameScore(query, names, nameScoreVal) ==
  IF names = << >> THEN nameScoreVal
  ELSE bestNameScore(query, Tail(names),
                     RatMax(nameScoreVal, fuzzyScore(query, names[1])))

\* postalScoreVal of calculateTextScore
postalScoreOf(parsed, row) ==
  IF parsed.postalPart # << >> /\ truthy(row.postal_code)
    THEN postalScore(parsed.postalPart, row.postal_code)
  ELSE IF parsed.isPostalOnly /\ truthy(row.postal_code)
    THEN postalScore(parsed.fullQuery, row.postal_code)
  ELSE Zero

\* variant of combineScores: two matching fragments are averaged without
\* the boost
combineScoresUnboosted(parsed, nameScoreVal, postalScoreVal) ==
  IF parsed.namePart # << >> /\ parsed.postalPart # << >>
  THEN IF RatLess(Rat(1, 2), nameScoreVal) /\ RatLess(Rat(1, 2), postalScoreVal)
         THEN RatMul(RatAdd(nameScoreVal, postalScoreVal), Rat(1, 2))
       ELSE RatMax(nameScoreVal, postalScoreVal)
  ELSE RatMax(nameScoreVal, postalScoreVal)

\* the text score calculateTextScore makes of the two scores
combineScores(parsed, nameScoreVal, postalScoreVal) ==
  IF parsed.namePart # << >> /\ parsed.postalPart # << >>
  THEN IF RatLess(Rat(1, 2), nameScoreVal) /\ RatLess(Rat(1, 2), postalScoreVal)
         THEN RatMin(One,
                     RatAdd(RatMul(RatAdd(nameScoreVal, postalScoreVal),
                                   Rat(1, 2)),
                            Rat(2, 10)))
       ELSE IF RatLess(Rat(1, 2), nameScoreVal) /\ RatLess(Zero, postalScoreVal)
         THEN RatAdd(RatAdd(RatMul(nameScoreVal, Rat(7, 10)),
                            RatMul(postalScoreVal, Rat(3, 10))),
                     Rat(1, 10))
       ELSE RatMax(nameScoreVal, postalScoreVal)
  ELSE IF parsed.isPostalOnly
  THEN IF RatLess(Zero, postalScoreVal) THEN postalScoreVal ELSE nameScoreVal
  ELSE RatMax(nameScoreVal, postalScoreVal)

calculateTextScore(parsed, row) ==
  combineScores(parsed,
                bestNameScore(queryForName(parsed), row.names,
                              fuzzyScore(queryForName(parsed), row.name)),
                postalScoreOf(parsed, row))

----------------------------------------------------------------------------
(* src/lib/search.ts : SearchService.  The database is the areas table in  *)
(* id order with the areas_fts index built from it; hasFTS is false when   *)
(* the index could not be created.                                         *)

\* src/lib/search.ts:446  Math.max(limit * 5, 100)
CandidateFloor == 100

\* src/lib/search.ts:451  normalizedQuery.length < 3
TrigramLength == 3

SearchRow(id, name, names, postal_code, center, country_code) ==
  [id |-> id, name |-> name, names |-> names, postal_code |-> postal_code,
   center |-> center, country_code |-> country_code]

\* populateFTSIndex, and insertFts of resolvePostalCodes: one entry per row
populateFTSIndex(areas) ==
  [i \in 1..Len(areas) |->
     [area_id |-> areas[i].id,
      name |-> areas[i].name,
      name_normalized |-> normalizeText(areas[i].name),
      postal_code |-> chars(areas[i].postal_code),
      all_names |-> joinWords(areas[i].names)]]

\* the text of a column of an index entry
column(entry, col) ==
  CASE col = "name" -> entry.name
    [] col = "name_normalized" -> entry.name_normalized
    [] col = "postal_code" -> entry.postal_code

\* col : "phrase" under the trigram tokenizer: the phrase occurs in the
\* column, letter case ignored; a phrase of fewer than three characters
\* matches nothing
termMatches(entry, term) ==
  /\ Len(term[2]) >= TrigramLength
  /\ includes(toLowerCase(column(entry, term[1])), toLowerCase(term[2]))

\* the rows of areas joined to the given index entries, in index order
RECURSIVE joinAreas(_, _)
joinAreas(areas, entries) ==
  IF entries = << >> THEN << >>
  ELSE SelectSeq(areas, LAMBDA a : a.id = entries[1].area_id)
         \o joinAreas(areas, Tail(entries))

\* a.country_code = ? when a country code is given
inCountry(row, countryCode) ==
  countryCode = "" \/ row.country_code = countryCode

\* SELECT ... FROM areas_fts fts JOIN areas a WHERE areas_fts MATCH ? LIMIT ?
matchQuery(database, terms, limit, countryCode) ==
  slice(SelectSeq(joinAreas(database.areas,
                            SelectSeq(database.fts,
                                      LAMBDA e : \E k \in 1..Len(terms) :
                                                   termMatches(e, terms[k]))),
                  LAMBDA a : inCountry(a, countryCode)),
        limit)

RECURSIVE distinctRows(_, _)
\* SELECT DISTINCT: a row is returned once
distinctRows(rows, seen) ==
  IF rows = << >> THEN << >>
  ELSE IF rows[1] \in seen THEN distinctRows(Tail(rows), seen)
  ELSE << rows[1] >> \o distinctRows(Tail(rows), seen \cup {rows[1]})

\* the search terms of getCandidatesFTS
searchTerms(parsed) ==
  LET normalizedQuery == normalizeText(parsed.fullQuery)
      shortPrefix == SubSeq(normalizedQuery, 1, Min(4, Len(normalizedQuery)))
      normalizedName == normalizeText(parsed.namePart)
      shortNamePrefix == SubSeq(normalizedName, 1, Min(4, Len(normalizedName)))
      nameTerms ==
        IF parsed.namePart # << >> /\ Len(normalizedName) >= TrigramLength
        THEN << << "name", parsed.namePart >>,
                << "name_normalized", normalizedName >>,
                << "name_normalized", shortNamePrefix >> >>
        ELSE << >>
      postalTerms ==
        IF parsed.postalPart # << >>
        THEN << << "postal_code", parsed.postalPart >> >> ELSE << >>
  IN  IF nameTerms \o postalTerms = << >> /\ Len(normalizedQuery) >= TrigramLength
      THEN << << "name", parsed.fullQuery >>,
              << "name_normalized", normalizedQuery >>,
              << "name_normalized", shortPrefix >> >>
      ELSE nameTerms \o postalTerms

\* getCandidatesFTS: a failing query is caught and gives no candidates
getCandidatesFTS(database, parsed, limit, countryCode) ==
  IF searchTerms(parsed) = << >> \/ ~database.hasFTS THEN << >>
  ELSE matchQuery(database, searchTerms(parsed), limit, countryCode)

\* getCandidatesLike: fts.name_normalized LIKE 'query%'
getCandidatesLike(database, parsed, limit, countryCode) ==
  LET normalizedQuery == normalizeText(queryForName(parsed))
  IN  slice(distinctRows(
              SelectSeq(joinAreas(database.areas,
                                  SelectSeq(database.fts,
                                            LAMBDA e : startsWith(e.name_normalized,
                                                                  normalizedQuery))),
                        LAMBDA a : inCountry(a, countryCode)),
              {}),
            limit)

\* getCandidatesByPrefix: the first two or three characters of the query
getCandidatesByPrefix(database, parsed, limit, countryCode) ==
  LET normalizedQuery == normalizeText(queryForName(parsed))
      prefix == SubSeq(normalizedQuery, 1, Min(3, Len(normalizedQuery)))
  IN  IF Len(prefix) < 2 THEN << >>
      ELSE IF database.hasFTS
        THEN matchQuery(database, << << "name_normalized", prefix >> >>,
                        limit, countryCode)
      ELSE slice(distinctRows(
                   SelectSeq(database.areas,
                             LAMBDA a : /\ inCountry(a, countryCode)
                                        /\ startsWith(sqlLower(a.name), prefix)),
                   {}),
                 limit)

RECURSIVE mergeUnseen(_, _)

\* variant of mergeUnseen: every row of the prefix search is appended
mergeAll(candidates, prefixResults) == candidates \o prefixResults

\* the rows of the prefix search whose id is not among the candidates yet
mergeUnseen(candidates, prefixResults) ==
  IF prefixResults = << >> THEN candidates
  ELSE IF \E k \in 1..Len(candidates) : candidates[k].id = prefixResults[1].id
       THEN mergeUnseen(candidates, Tail(prefixResults))
       ELSE mergeUnseen(Append(candidates, prefixResults[1]), Tail(prefixResults))

\* the distance from the bias location to a row in metres
biasDistance(bias, row) == ISqrt(haversineSq(bias, row.center)) \div 2

\* proximityScore(distanceMeters) = Math.exp(-distanceMeters / 50000), to
\* four decimals, at the distances that occur
proximityScore(distanceMeters) ==
  CASE distanceMeters = 0 -> One
    [] distanceMeters = 5000 -> Rat(9048, 10000)

\* finalScore of a candidate whose text score is textScore
finalScore(textScore, row, hasBias, bias, proximityWeight) ==
  IF hasBias /\ RatLess(Zero, proximityWeight)
  THEN RatAdd(RatMul(textScore, RatSub(One, proximityWeight)),
              RatMul(proximityScore(biasDistance(bias, row)), proximityWeight))
  ELSE textScore

RECURSIVE insertByFinalScore(_, _)
insertByFinalScore(sorted, e) ==
  IF sorted = << >> THEN << e >>
  ELSE IF RatLess(sorted[Len(sorted)].score, e.score)
       THEN insertByFinalScore(SubSeq(sorted, 1, Len(sorted) - 1), e)
              \o << sorted[Len(sorted)] >>
       ELSE sorted \o << e >>

RECURSIVE sortByFinalScore(_)
\* scored.sort((a, b) => b.score - a.score): descending, stable
sortByFinalScore(scored) ==
  IF scored = << >> THEN << >>
  ELSE insertByFinalScore(sortByFinalScore(SubSeq(scored, 1, Len(scored) - 1)),
                          scored[Len(scored)])

\* Math.max(limit * 5, 100)
candidateLimitOf(limit) ==
  IF limit * 5 > CandidateFloor THEN limit * 5 ELSE CandidateFloor

\* true when search queries the index by LIKE rather than by MATCH
usesLike(parsed) ==
  /\ Len(normalizeText(queryForName(parsed))) < TrigramLength
  /\ parsed.postalPart = << >>

\* the candidates of the first retrieval of search
retrieve(database, parsed, limit, countryCode) ==
  IF usesLike(parsed)
  THEN getCandidatesLike(database, parsed, candidateLimitOf(limit), countryCode)
  ELSE getCandidatesFTS(database, parsed, candidateLimitOf(limit), countryCode)

firstCandidates(database, query, limit, countryCode) ==
  retrieve(database, parseQuery(query), limit, countryCode)

\* the candidates after the prefix search that follows when fewer than
\* limit were found
broaden(database, parsed, limit, countryCode, candidates) ==
  IF Len(candidates) < limit
  THEN mergeUnseen(candidates,
                   getCandidatesByPrefix(database, parsed,
                                         candidateLimitOf(limit), countryCode))
  ELSE candidates

\* the candidates of search for a parsed query, before scoring
candidatesFor(database, parsed, limit, countryCode) ==
  broaden(database, parsed, limit, countryCode,
          retrieve(database, parsed, limit, countryCode))

searchCandidates(database, query, limit, countryCode) ==
  candidatesFor(database, parseQuery(query), limit, countryCode)

\* the candidates with their text scores
withTextScores(candidates, parsed) ==
  [k \in 1..Len(candidates) |->
     [row |-> candidates[k],
      textScore |-> calculateTextScore(parsed, candidates[k])]]

\* the scored list of search in candidate order: text score <= 0 skipped
scoredList(texts, hasBias, bias, proximityWeight) ==
  LET positive == SelectSeq(texts, LAMBDA c : RatLess(Zero, c.textScore))
  IN  [k \in 1..Len(positive) |->
         [id |-> positive[k].row.id,
          score |-> finalScore(positive[k].textScore, positive[k].row,
                               hasBias, bias, proximityWeight)]]

\* search for a parsed query
searchParsed(database, parsed, limit, countryCode, hasBias, bias, weight) ==
  slice(sortByFinalScore(
          scoredList(withTextScores(candidatesFor(database, parsed, limit,
                                                  countryCode),
                                    parsed),
                     hasBias, bias, weight)),
        limit)

\* search(query, { limit, countryCode, biasLat, biasLng, proximityWeight })
search(database, query, limit, countryCode, hasBias, bias, proximityWeight) ==
  searchParsed(database, parseQuery(query), limit, countryCode, hasBias, bias,
               proximityWeight)

\* getCandidatesLike reads areas_fts outside any try block: without the
\* index the query, and search with it, raises
searchRaises(database, query) == ~database.hasFTS /\ usesLike(parseQuery(query))

Far == Pt(6000, 8000)

AbKallio == << "A", "b", " " >> \o Kallio

\* two rows of one area, rows with a translated name, without a postal
\* code, of another country, and a row named like a postal code
SearchRowUniverse ==
  << SearchRow(1, Kallio, << Kallio >>, "00100", Pt(0, 0), "FI"),
     SearchRow(2, Kallio, << Kallio >>, "00200", Pt(0, 0), "FI"),
     SearchRow(3, Kamppi, << Kamppi, << "k", "a", "b", "b", "i" >> >>, "00100",
               Far, "FI"),
     SearchRow(4, << "K", "a", "l", "a" >>,
               << << "K", "a", "l", "a" >>, << "K", "a", "l", "i", "o" >> >>,
               Null, Far, "SE"),
     SearchRow(5, AbKallio, << AbKallio >>, "00300", Far, "FI"),
     SearchRow(6, << "0", "0", "1" >>, << << "0", "0", "1" >> >>, "00100",
               Pt(0, 0), "FI") >>

\* a database: at most MaxRows rows of the universe in id order with their
\* index, or without the index
SearchDatabases ==
  {[areas |-> SelectSeq(SearchRowUniverse, LAMBDA r : r.id \in ids),
    fts |-> IF hasFTS
            THEN populateFTSIndex(SelectSeq(SearchRowUniverse,
                                            LAMBDA r : r.id \in ids))
            ELSE << >>,
    hasFTS |-> hasFTS] :
     ids \in {S \in SUBSET (1..Len(SearchRowUniverse)) : Cardinality(S) <= MaxRows},
     hasFTS \in BOOLEAN}

SearchQueries ==
  { << >>, << "0" >>, << "k" >>, << "k", "a" >>, << "0", "0", "1" >>,
    << "0", "0", "1", "0", "0" >>, kalio, Kallio,
    << " ", "K", "A", "L", "L", "I", "O", " " >>,
    Kallio \o << " ", "0", "0", "1", "0", "0" >>,
    << "0", "0", "2", " ", "k", "a", "l" >>,
    kalio \o << " ", "0", "0", "1", "0", "0" >>,
    kalio \o << " ", "0", "0", "2" >> }

CountryCodes == {"", "FI"}

ProximityWeights == {Zero, Rat(2, 10)}

InitSearch ==
  /\ db \in SearchDatabases
  /\ op = "init"
  /\ arg = NoArg
  /\ out = NoOut

TextScore(query, row) ==
  /\ op = "init"
  /\ op' = "textScore"
  /\ arg' = [query |-> query, row |-> row]
  /\ out' = [score |-> calculateTextScore(parseQuery(query), row)]
  /\ UNCHANGED db

TextScoreCall ==
  /\ op = "init"
  /\ \E query \in SearchQueries, k \in 1..Len(db.areas) :
       TextScore(query, db.areas[k])

Search(query, limit, countryCode, hasBias, proximityWeight) ==
  /\ op = "init"
  /\ op' = "search"
  /\ arg' = [query |-> query, limit |-> limit, countryCode |-> countryCode,
             hasBias |-> hasBias, bias |-> Pt(0, 0),
             proximityWeight |-> proximityWeight]
  /\ out' = IF searchRaises(db, query)
            THEN [results |-> << >>, raised |-> TRUE]
            ELSE [results |-> search(db, query, limit, countryCode, hasBias,
                                     Pt(0, 0), proximityWeight),
                  raised |-> FALSE]
  /\ UNCHANGED db

SearchCall ==
  /\ op = "init"
  /\ \E query \in SearchQueries, limit \in Limits, countryCode \in CountryCodes,
        hasBias \in BOOLEAN, proximityWeight \in ProximityWeights :
       /\ (~hasBias => proximityWeight # Zero)
       /\ Search(query, limit, countryCode, hasBias, proximityWeight)

NextSearch == TextScoreCall \/ SearchCall \/ Respond

SpecSearch == InitSearch /\ [][NextSearch]_vars

\* the best fuzzyScore of a query over the primary name and every
\* translated name of a row
bestFuzzy(query, row) ==
  LET all == << row.name >> \o row.names
      best == CHOOSE k \in 1..Len(all) :
                \A j \in 1..Len(all) :
                  RatLeq(fuzzyScore(query, all[j]), fuzzyScore(query, all[k]))
  IN  fuzzyScore(query, all[best])

\* C19: for a query without a name/postal split the text score of a row is
\* the larger of the best fuzzyScore over its names and
\* postalScore(query, row.postal_code).
C19_SingleFragmentTakesMax ==
  (op = "textScore" /\ parseQuery(arg.query).namePart = << >>) =>
    out.score = RatMax(bestFuzzy(parseQuery(arg.query).fullQuery, arg.row),
                       postalScore(parseQuery(arg.query).fullQuery,
                                   arg.row.postal_code))

\* the row of the database with the given id
rowOf(id) == db.areas[CHOOSE k \in 1..Len(db.areas) : db.areas[k].id = id]

\* the candidates the search of arg went through, in candidate order
candidatesOfSearch ==
  searchCandidates(db, arg.query, arg.limit, arg.countryCode)

\* the position of the first candidate with the given id
candidatePosition(id) ==
  SetMin({k \in 1..Len(candidatesOfSearch) : candidatesOfSearch[k].id = id})

----------------------------------------------------------------------------
(* src/index.ts : authentication of a request.  The configuration is the   *)
(* API_KEY of the environment and the host name the server is bound to; a  *)
(* header is absent or carries a text.                                     *)

Header(text) == [present |-> TRUE, text |-> text]

NoHeader == [present |-> FALSE, text |-> << >>]

BearerPrefix == << "B", "e", "a", "r", "e", "r", " " >>

\* String.prototype.slice(start)
sliceFrom(text, start) == SubSeq(text, start + 1, Len(text))

\* server.hostname === "localhost" || server.hostname === "127.0.0.1"
isLocalhost(server) ==
  server.hostname = "localhost" \/ server.hostname = "127.0.0.1"

\* apiKeyHeader === API_KEY, token === API_KEY: an absent header is null
\* and an unset key undefined, which are not equal
equalsKey(header, apiKey) ==
  header.present /\ apiKey.present /\ header.text = apiKey.text

\* the Authorization header carries Bearer <API_KEY>
bearerIsKey(authHeader, apiKey) ==
  /\ authHeader.present
  /\ startsWith(authHeader.text, BearerPrefix)
  /\ equalsKey(Header(sliceFrom(authHeader.text, Len(BearerPrefix))), apiKey)

validateApiKey(req, server) ==
  \/ isLocalhost(server)
  \/ equalsKey(req.xApiKey, server.apiKey)
  \/ bearerIsKey(req.authorization, server.apiKey)

\* fetch(req, server) up to the routing of the request: "health",
\* "unauthorized" (401) or "routed" to the handler of the path
fetch(req, server) ==
  IF req.path = "/health" THEN [answer |-> "health", status |-> 200]
  ELSE IF ~validateApiKey(req, server)
    THEN [answer |-> "unauthorized", status |-> 401]
  ELSE [answer |-> "routed", status |-> 0]

Key1 == << "k", "1" >>

Key2 == << "k", "2" >>

ApiKeys == {NoHeader, Header(Key1), Header(Key2)}

Hostnames == {"localhost", "127.0.0.1", "0.0.0.0", "api.example.org"}

Paths == {"/health", "/stats", "/areas/nearby", "/areas/search"}

XApiKeys == {NoHeader, Header(<< >>), Header(Key1), Header(Key2)}

Authorizations ==
  {NoHeader, Header(BearerPrefix \o Key1), Header(BearerPrefix \o Key2),
   Header(BearerPrefix), Header(Key1),
   Header(<< "b", "e", "a", "r", "e", "r", " " >> \o Key1),
   Header(<< "B", "a", "s", "i", "c", " " >> \o Key1)}

InitAuth ==
  /\ db \in {[apiKey |-> k, hostname |-> h] : k \in ApiKeys, h \in Hostnames}
  /\ op = "init"
  /\ arg = NoArg
  /\ out = NoOut

Fetch(req) ==
  /\ op' = "fetch"
  /\ arg' = req
  /\ out' = fetch(req, db)
  /\ UNCHANGED db

FetchCall ==
  /\ op = "init"
  /\ \E path \in Paths, x \in XApiKeys, a \in Authorizations :
       Fetch([path |-> path, xApiKey |-> x, authorization |-> a])

NextAuth == FetchCall \/ Respond

SpecAuth == InitAuth /\ [][NextAuth]_vars

\* the request carries the configured key in X-API-Key or as Bearer token
carriesKey ==
  \/ arg.xApiKey.present /\ arg.xApiKey.text = db.apiKey.text
  \/ /\ arg.authorization.present
     /\ \E token \in {Key1, Key2, << >>} :
          /\ arg.authorization.text = BearerPrefix \o token
          /\ token = db.apiKey.text

\* C21: with an API key configured, a request to a path other than
\* /health without the key in X-API-Key or as Bearer token is answered 401
\* and not routed to a query, whatever the host name; /health is answered
\* without a key.
C21_KeyRequiredOnEveryHost ==
  (op = "fetch" /\ db.apiKey.present) =>
    /\ (arg.path # "/health" /\ ~carriesKey)
         => (out.status = 401 /\ out.answer = "unauthorized")
    /\ arg.path = "/health" => out.answer = "health"

----------------------------------------------------------------------------
(* src/lib/geo.ts : pointInPolygon on every ring of up to MaxRingLen       *)
(* positions of a small grid (open and closed rings, repeated and          *)
(* collinear positions), alone, as a hole and as a part of a MultiPolygon. *)

MaxRingLen == 4

GridMax == 4

RingPositions ==
  {<< 0, 0 >>, << GridMax, 0 >>, << GridMax, GridMax >>, << 2, 2 >>,
   << 2, 0 >>}

Rings == UNION {[1..n -> RingPositions] : n \in 0..MaxRingLen}

GridPoints == {Pt(lat, lng) : lat \in 0..GridMax, lng \in 0..GridMax}

OuterSquare == SquareRing(0, 0, GridMax, GridMax)

RingPolygons ==
  {Geometry("Polygon", << ring >>) : ring \in Rings}
    \cup {Geometry("Polygon", << OuterSquare, ring >>) : ring \in Rings}
    \cup {Geometry("MultiPolygon", << << ring >>, << OuterSquare, ring >> >>) :
            ring \in {r \in Rings : Len(r) < MaxRingLen}}

InitRing ==
  /\ db \in RingPolygons
  /\ op = "init"
  /\ arg = NoArg
  /\ out = NoOut

PointInPolygon(point) ==
  /\ op' = "pointInPolygon"
  /\ arg' = [point |-> point]
  /\ out' = [inside |-> pointInPolygon(point, db)]
  /\ UNCHANGED db

PointInPolygonCall ==
  /\ op = "init"
  /\ \E point \in GridPoints : PointInPolygon(point)

NextRing == PointInPolygonCall \/ Respond

SpecRing == InitRing /\ [][NextRing]_vars

\* the list moved round by k places: position k + 1 comes first
rotateRing(ring, k) ==
  [i \in 1..Len(ring) |-> ring[((i - 1 + k) % Len(ring)) + 1]]

\* the sequence s with element i replaced by e
replaceAt(s, i, e) == [s EXCEPT ![i] = e]

\* the geometries got from polygon by rotating one of its rings
ringRotations(polygon) ==
  IF polygon.type = "Polygon"
  THEN {Geometry("Polygon",
                 replaceAt(polygon.coordinates, r,
                           rotateRing(polygon.coordinates[r], k))) :
          r \in 1..Len(polygon.coordinates), k \in 0..MaxRingLen}
  ELSE UNION {{Geometry("MultiPolygon",
                 replaceAt(polygon.coordinates, i,
                   replaceAt(polygon.coordinates[i], r,
                             rotateRing(polygon.coordinates[i][r], k)))) :
                 r \in 1..Len(polygon.coordinates[i]), k \in 0..MaxRingLen} :
              i \in 1..Len(polygon.coordinates)}

\* C22: pointInPolygon(p, P) is the same for every cyclic rotation of the
\* vertex list of any ring of P (outer or hole, the closing duplicate moved
\* with the others), for every point p.
C22_RotationInvariant ==
  op = "pointInPolygon" =>
    \A rotated \in ringRotations(db) :
      pointInPolygon(arg.point, rotated) = out.inside

\* a point inside a polygon with a hole whose outer ring and hole both
\* change under rotation
C22_Witness ==
  /\ op = "pointInPolygon"
  /\ out.inside
  /\ db.type = "Polygon"
  /\ Len(db.coordinates) = 2
  /\ \A r \in 1..2 : rotateRing(db.coordinates[r], 1) # db.coordinates[r]
  /\ Len(db.coordinates[2]) = MaxRingLen
  /\ \E q \in GridPoints : checkRing(db.coordinates[2], q)

----------------------------------------------------------------------------
(* src/lib/geo.ts : polygonsIntersect                                      *)

bboxIntersects(a, b) ==
  ~(\/ a.maxLat < b.minLat
    \/ a.minLat > b.maxLat
    \/ a.maxLng < b.minLng
    \/ a.minLng > b.maxLng)

\* the outer ring of a Polygon, the outer ring of every part of a
\* MultiPolygon
getOuterCoords(poly) ==
  IF poly.type = "Polygon" THEN << poly.coordinates[1] >>
  ELSE [i \in 1..Len(poly.coordinates) |-> poly.coordinates[i][1]]

direction(p1, p2, p3) ==
  (p3[1] - p1[1]) * (p2[2] - p1[2]) - (p2[1] - p1[1]) * (p3[2] - p1[2])

Max(a, b) == IF a >= b THEN a ELSE b

onSegment(p1, p2, p) ==
  /\ Min(p1[1], p2[1]) <= p[1]
  /\ p[1] <= Max(p1[1], p2[1])
  /\ Min(p1[2], p2[2]) <= p[2]
  /\ p[2] <= Max(p1[2], p2[2])

\* the tests of segmentsIntersect on the four directions
crossesOrTouches(a1, a2, b1, b2, d1, d2, d3, d4) ==
  \/ /\ (d1 > 0 /\ d2 < 0) \/ (d1 < 0 /\ d2 > 0)
     /\ (d3 > 0 /\ d4 < 0) \/ (d3 < 0 /\ d4 > 0)
  \/ d1 = 0 /\ onSegment(b1, b2, a1)
  \/ d2 = 0 /\ onSegment(b1, b2, a2)
  \/ d3 = 0 /\ onSegment(a1, a2, b1)
  \/ d4 = 0 /\ onSegment(a1, a2, b2)

segmentsIntersect(a1, a2, b1, b2) ==
  crossesOrTouches(a1, a2, b1, b2, direction(b1, b2, a1),
                   direction(b1, b2, a2), direction(a1, a2, b1),
                   direction(a1, a2, b2))

ringsIntersect(ringA, ringB) ==
  \E i \in 1..(Len(ringA) - 1), j \in 1..(Len(ringB) - 1) :
    segmentsIntersect(ringA[i], ringA[i + 1], ringB[j], ringB[j + 1])

\* some position of the rings is inside the polygon
anyVertexInside(rings, polygon) ==
  \E r \in 1..Len(rings) : \E i \in 1..Len(rings[r]) :
    pointInPolygon(Pt(rings[r][i][2], rings[r][i][1]), polygon)

anyRingsIntersect(coordsA, coordsB) ==
  \E ra \in 1..Len(coordsA), rb \in 1..Len(coordsB) :
    ringsIntersect(coordsA[ra], coordsB[rb])

\* variant of polygonsIntersect: the vertices of b are not tested against a
polygonsIntersectOneWay(a, b) ==
  /\ bboxIntersects(bboxFromPolygon(a), bboxFromPolygon(b))
  /\ \/ anyVertexInside(getOuterCoords(a), b)
     \/ anyRingsIntersect(getOuterCoords(a), getOuterCoords(b))

polygonsIntersect(a, b) ==
  /\ bboxIntersects(bboxFromPolygon(a), bboxFromPolygon(b))
  /\ \/ anyVertexInside(getOuterCoords(a), b)
     \/ anyVertexInside(getOuterCoords(b), a)
     \/ anyRingsIntersect(getOuterCoords(a), getOuterCoords(b))

\* the positions of a 3 x 3 grid, numbered row by row
GridSteps == << 0, 2, GridMax >>

GridPosition(n) == << GridSteps[((n - 1) % 3) + 1], GridSteps[((n - 1) \div 3) + 1] >>

\* the closed ring through three positions
Triangle(i, j, k) ==
  << GridPosition(i), GridPosition(j), GridPosition(k), GridPosition(i) >>

Triangles == {Triangle(i, j, k) : i \in 1..7, j \in 2..8, k \in 3..9}

InnerSquare == SquareRing(1, 1, 3, 3)

\* Polygons of one triangle (collinear ones included), in both
\* orientations for some, polygons with a hole, MultiPolygons
IntersectPolygons ==
  {Geometry("Polygon", << t >>) : t \in {u \in Triangles : u[1] # u[2]}}
    \cup {Geometry("Polygon", << OuterSquare, InnerSquare >>),
          Geometry("Polygon", << OuterSquare, Triangle(1, 3, 9) >>),
          Geometry("Polygon", << InnerSquare >>),
          Geometry("Polygon", << Reverse(OuterSquare), Reverse(InnerSquare) >>),
          Geometry("MultiPolygon",
                   << << Triangle(1, 2, 4) >>, << Triangle(6, 9, 8) >> >>),
          Geometry("MultiPolygon",
                   << << OuterSquare, InnerSquare >>,
                      << SquareRing(GridMax, 0, GridMax + 2, 2) >> >>)}

InitIntersect ==
  /\ db \in [a : IntersectPolygons, b : IntersectPolygons]
  /\ op = "init"
  /\ arg = NoArg
  /\ out = NoOut

PolygonsIntersect ==
  /\ op = "init"
  /\ op' = "polygonsIntersect"
  /\ arg' = db
  /\ out' = [intersects |-> polygonsIntersect(db.a, db.b)]
  /\ UNCHANGED db

NextIntersect == PolygonsIntersect \/ Respond

SpecIntersect == InitIntersect /\ [][NextIntersect]_vars

\* C23: polygonsIntersect(A, B) = polygonsIntersect(B, A) for Polygons and
\* MultiPolygons, with holes, touching at a vertex or along a collinear
\* edge.
C23_IntersectSymmetric ==
  op = "polygonsIntersect" =>
    out.intersects = polygonsIntersect(arg.b, arg.a)

\* a polygon with a hole against one inside the hole that touches the hole's
\* ring only: found by the edge test alone
C23_Witness ==
  /\ op = "polygonsIntersect"
  /\ out.intersects
  /\ arg.a.type = "Polygon" /\ Len(arg.a.coordinates) = 2
  /\ arg.b.type = "Polygon" /\ Cardinality(Range(arg.b.coordinates[1])) = 3
  /\ ~anyVertexInside(getOuterCoords(arg.a), arg.b)
  /\ ~anyVertexInside(getOuterCoords(arg.b), arg.a)

----------------------------------------------------------------------------
(* Serving: the query operations on one storage connection.  The storage   *)
(* is the areas table with its spatial index (rows, as the geographic      *)
(* queries read them, and areas, as the search reads them), the entries of *)
(* areas_fts, whether that table exists, and whether the connection was    *)
(* opened read-only; instance is the SearchService of the connection:      *)
(* "none", or the value of its hasFTS ("fts" or "like").                   *)

\* the storage after a statement that writes: it throws on a read-only
\* connection
canWrite(storage) == ~storage.readonly

\* populateFTSIndex of a SearchService: reached only when areas_fts has no
\* entry; a failing insert is caught and logged
populateInto(storage) ==
  IF canWrite(storage)
  THEN [storage EXCEPT !.fts = populateFTSIndex(storage.areas)]
  ELSE storage

\* variant of countAndPopulate: populates whatever the count
populateUncounted(storage) ==
  [IF canWrite(storage)
     THEN [storage EXCEPT !.fts = @ \o populateFTSIndex(storage.areas)]
     ELSE storage
     EXCEPT !.instance = "fts"]

\* the second half of initializeFTSIndex, areas_fts existing
countAndPopulate(storage) ==
  [IF Len(storage.fts) = 0 THEN populateInto(storage) ELSE storage
     EXCEPT !.instance = "fts"]

\* initializeFTSIndex: CREATE VIRTUAL TABLE when areas_fts is missing (the
\* catch sets hasFTS to false when it throws), count, populate when empty
initializeFTSIndex(storage) ==
  IF ~storage.hasTable /\ ~canWrite(storage)
  THEN [storage EXCEPT !.instance = "like"]
  ELSE countAndPopulate([storage EXCEPT !.hasTable = TRUE])

\* SearchService.getInstance(db): one instance per connection
getInstance(storage) ==
  IF storage.instance = "none" THEN initializeFTSIndex(storage) ELSE storage

\* the database as search reads it through the instance
searchView(storage) ==
  [areas |-> storage.areas, fts |-> storage.fts,
   hasFTS |-> storage.instance = "fts"]

ServingRows == {d \in Databases : Len(d) <= 1}

ServingAreas ==
  {SelectSeq(SearchRowUniverse, LAMBDA r : r.id \in ids) :
     ids \in {S \in SUBSET (1..Len(SearchRowUniverse)) : Cardinality(S) <= MaxRows}}

\* areas_fts missing, empty, or holding one entry per row (after ingestion)
Storages ==
  {[rows |-> rows, areas |-> areas, fts |-> IF full THEN populateFTSIndex(areas) ELSE << >>,
    hasTable |-> hasTable \/ full, readonly |-> readonly, instance |-> "none"] :
     rows \in ServingRows, areas \in ServingAreas, full \in BOOLEAN,
     hasTable \in BOOLEAN, readonly \in BOOLEAN}

InitServing ==
  /\ db \in Storages
  /\ op = "init"
  /\ arg = NoArg
  /\ out = NoOut

ServeNearby ==
  /\ op = "init"
  /\ op' = "nearby"
  /\ \E p \in QueryPoints, r \in Radii, l \in Limits :
       /\ arg' = [point |-> p, radius |-> r, limit |-> l]
       /\ out' = [areas |-> findAreasNearby(db.rows, p, r, l)]
  /\ UNCHANGED db

ServeContaining ==
  /\ op = "init"
  /\ op' = "containing"
  /\ \E p \in QueryPoints, l \in Limits :
       /\ arg' = [point |-> p, limit |-> l]
       /\ out' = findAreasContaining(db.rows, p, l)
  /\ UNCHANGED db

ServeAdjacent ==
  /\ op = "init"
  /\ op' = "adjacent"
  /\ \E p \in QueryPoints, r \in Radii, l \in Limits :
       /\ arg' = [point |-> p, radius |-> r, limit |-> l]
       /\ out' = findAdjacentAreas(db.rows, p, r, l)
  /\ UNCHANGED db

GetInstance ==
  /\ op = "init"
  /\ op' = "getInstance"
  /\ arg' = NoArg
  /\ db' = getInstance(db)
  /\ out' = [hasFTS |-> db'.instance = "fts",
             populated |-> Len(db'.fts) - Len(db.fts)]

ServeSearch ==
  /\ op = "init"
  /\ db.instance # "none"
  /\ op' = "search"
  /\ \E query \in SearchQueries, limit \in Limits :
       /\ arg' = [query |-> query, limit |-> limit]
       /\ out' = IF searchRaises(searchView(db), query)
                 THEN [results |-> << >>, raised |-> TRUE]
                 ELSE [results |-> search(searchView(db), query, limit, "",
                                          FALSE, Pt(0, 0), Zero),
                       raised |-> FALSE]
  /\ UNCHANGED db

NextServing ==
  \/ ServeNearby
  \/ ServeContaining
  \/ ServeAdjacent
  \/ GetInstance
  \/ ServeSearch
  \/ Respond

SpecServing == InitServing /\ [][NextServing]_vars

----------------------------------------------------------------------------
(* The assembler: length test and closure *)

RECURSIVE finishedChains(_, _, _)
\* every chain joinWays finishes, before its length is tested
finishedChains(remaining, geoms, chains) ==
  IF remaining = << >> THEN chains
  ELSE IF Len(geoms[Head(remaining)]) < 2
  THEN finishedChains(Tail(remaining), geoms, chains)
  ELSE LET r == extendRing(geoms[Head(remaining)], Tail(remaining), geoms)
       IN  finishedChains(r.remaining, r.geoms, Append(chains, r.ring))

\* the chains finished from the outer members of the call
outerChainsOfCall ==
  finishedChains(firstSeen(wayRefsOf(arg.members, {"outer", ""})), arg.geoms,
                 << >>)

\* C25: the at-least-4-coordinates test is applied after forced closure: a
\* joined chain that ends open with 3 coordinates is closed and kept as a
\* ring of 4, and only rings with fewer than 4 coordinates after closure
\* are dropped.
C25_LengthTestedAfterClosure ==
  op = "buildPolygonFromRelation" =>
    \A k \in 1..Len(outerChainsOfCall) :
      Len(ensureClosed(outerChainsOfCall[k])) >= MinRingLength
        <=> ensureClosed(outerChainsOfCall[k]) \in Range(out.outerRings)

\* C27: buildPolygonFromRelation leaves its wayGeometries argument
\* unchanged: after the call every way id maps to the same coordinate
\* sequence in the same order as before.
C27_WayGeometriesUnchanged ==
  op = "buildPolygonFromRelation" =>
    \A w \in WayRefs : db[w] = arg.geoms[w]

----------------------------------------------------------------------------
(* src/ingest/postal.ts : resolvePostalCodes.  The final tables are areas  *)
(* (rows with their key columns, in insertion order), areas_rtree and      *)
(* areas_fts (the ids their entries carry, in insertion order); runs       *)
(* counts the ingestion runs.  The input of a run is the list of raw areas *)
(* with the postal codes findIntersectingPostalCodes and                   *)
(* findNearestPostalCode resolve for each.                                 *)

MaxRuns == 2

AreaRow(id, osm_type, osm_id, postal_code) ==
  [id |-> id, osm_type |-> osm_type, osm_id |-> osm_id,
   postal_code |-> postal_code]

EmptyTables == [areas |-> << >>, rtree |-> << >>, fts |-> << >>, failed |-> FALSE]

\* the largest rowid of a table, 0 for an empty one
maxRowid(areas) ==
  IF areas = << >> THEN 0
  ELSE CHOOSE m \in {areas[i].id : i \in 1..Len(areas)} :
         \A i \in 1..Len(areas) : areas[i].id <= m

\* UNIQUE(osm_type, osm_id, postal_code): NULLs are distinct from each other
conflicts(row, osm_type, osm_id, postal_code) ==
  /\ postal_code # Null
  /\ row.osm_type = osm_type /\ row.osm_id = osm_id
  /\ row.postal_code = postal_code

\* INSERT OR REPLACE INTO areas: the rowid is the largest one plus 1, the
\* rows in conflict are deleted
insertArea(areas, osm_type, osm_id, postal_code) ==
  Append(SelectSeq(areas,
                   LAMBDA row : ~conflicts(row, osm_type, osm_id, postal_code)),
         AreaRow(maxRowid(areas) + 1, osm_type, osm_id, postal_code))

\* SELECT id FROM areas WHERE osm_id = ? AND osm_type = ? AND (postal_code
\* = ? OR (postal_code IS NULL AND ? IS NULL)): the ids of the matching rows
selectIds(areas, osm_type, osm_id, postal_code) ==
  {areas[i].id : i \in {k \in 1..Len(areas) :
                          /\ areas[k].osm_type = osm_type
                          /\ areas[k].osm_id = osm_id
                          /\ areas[k].postal_code = postal_code}}

\* insertRtree and insertFts for the id that .get() returned: areas_rtree
\* refuses an id it holds, areas_fts takes any
insertIndexes(tables, id) ==
  IF \E k \in 1..Len(tables.rtree) : tables.rtree[k] = id
  THEN [tables EXCEPT !.failed = TRUE]
  ELSE [tables EXCEPT !.rtree = Append(@, id), !.fts = Append(@, id)]

\* the tables after the body of the inner loop for one postal code, for
\* every row .get() may return (the first match in an unspecified order)
insertRow(tables, osm_type, osm_id, postal_code) ==
  LET inserted == [tables EXCEPT
                     !.areas = insertArea(@, osm_type, osm_id, postal_code)]
  IN  {insertIndexes(inserted, id) :
         id \in selectIds(inserted.areas, osm_type, osm_id, postal_code)}

\* postalCode || null for every code of the area, [""] when it has none
codesToInsert(postalCodes) ==
  IF postalCodes = << >> THEN << Null >> ELSE postalCodes

RECURSIVE insertCodes(_, _, _)
\* for (const postalCode of postalCodes): the sets of tables it can end with
insertCodes(tableSet, area, codes) ==
  IF codes = << >> THEN tableSet
  ELSE insertCodes(UNION {IF t.failed THEN {t}
                          ELSE insertRow(t, area.osm_type, area.osm_id,
                                         Head(codes)) : t \in tableSet},
                   area, Tail(codes))

RECURSIVE insertAreas(_, _)
\* for (const area of areas)
insertAreas(tableSet, rawAreas) ==
  IF rawAreas = << >> THEN tableSet
  ELSE insertAreas(insertCodes(tableSet, Head(rawAreas),
                               codesToInsert(Head(rawAreas).postalCodes)),
                   Tail(rawAreas))

\* resolvePostalCodes: insertMany() is one transaction; when a statement
\* throws it is rolled back and the run ends with the error
resolvePostalCodes(tables, rawAreas) ==
  {IF t.failed THEN [tables EXCEPT !.failed = TRUE] ELSE t :
     t \in insertAreas({tables}, rawAreas)}

\* clearFinalTables
clearFinalTables(tables) == EmptyTables

RawArea(osm_type, osm_id, postalCodes) ==
  [osm_type |-> osm_type, osm_id |-> osm_id, postalCodes |-> postalCodes]

\* the postal codes resolved for an area: none, one, two, or one code
\* twice (two postal boundaries with one code both intersect the area)
ResolvedCodes ==
  {<< >>, << "00100" >>, << "00100", "00200" >>, << "00100", "00100" >>}

\* raw_areas: UNIQUE(osm_type, osm_id)
RawAreaLists ==
  {<< RawArea("node", 1, c) >> : c \in ResolvedCodes}
    \cup {<< RawArea("node", 1, c), RawArea("way", 1, d) >> :
            c \in ResolvedCodes, d \in ResolvedCodes}

InitIngest ==
  /\ db = [tables |-> EmptyTables, runs |-> 0]
  /\ op = "init"
  /\ arg = NoArg
  /\ out = NoOut

ResolvePostalCodes(rawAreas) ==
  /\ op' = "resolvePostalCodes"
  /\ arg' = [rawAreas |-> rawAreas, before |-> db.tables]
  /\ \E t \in resolvePostalCodes(db.tables, rawAreas) :
       /\ db' = [tables |-> [t EXCEPT !.failed = FALSE], runs |-> db.runs + 1]
       /\ out' = [error |-> t.failed]

ResolveCall ==
  /\ op = "init"
  /\ db.runs < MaxRuns
  /\ \E rawAreas \in RawAreaLists : ResolvePostalCodes(rawAreas)

ClearFinalTables ==
  /\ op = "init"
  /\ db.tables # EmptyTables
  /\ op' = "clearFinalTables"
  /\ arg' = NoArg
  /\ out' = NoOut
  /\ db' = [db EXCEPT !.tables = clearFinalTables(@)]

NextIngest == ResolveCall \/ ClearFinalTables \/ Respond

SpecIngest == InitIngest /\ [][NextIngest]_vars

\* the number of entries of an index that carry the id
entriesFor(index, id) == Cardinality({k \in 1..Len(index) : index[k] = id})

\* C26: after every run of resolvePostalCodes that completes without error,
\* in any sequence of runs with or without clearing in between, every row
\* of areas has exactly one spatial-index and one search-index entry, no
\* index entry refers to a missing row, and no two rows share (osm_type,
\* osm_id, postal_code), a missing postal code included.
C26_IndexesMatchRows ==
  (op = "resolvePostalCodes" /\ ~out.error) =>
    LET t == db.tables
        ids == {t.areas[i].id : i \in 1..Len(t.areas)}
    IN  /\ \A id \in ids : entriesFor(t.rtree, id) = 1 /\ entriesFor(t.fts, id) = 1
        /\ \A k \in 1..Len(t.rtree) : t.rtree[k] \in ids
        /\ \A k \in 1..Len(t.fts) : t.fts[k] \in ids
        /\ \A i, j \in 1..Len(t.areas) :
             (/\ t.areas[i].osm_type = t.areas[j].osm_type
              /\ t.areas[i].osm_id = t.areas[j].osm_id
              /\ t.areas[i].postal_code = t.areas[j].postal_code) => i = j

----------------------------------------------------------------------------
(* src/lib/search.ts : two SearchService instances initialised through     *)
(* separate connections to one storage.  db is the storage (a storage of   *)
(* the serving model; instance and readonly are not used: each connection  *)
(* is writable and has its own instance); op maps every connection to the  *)
(* statement its initializeFTSIndex runs next, arg to the rows its         *)
(* populateFTSIndex has read, out to the result of its search.  Every      *)
(* statement is atomic, insertMany() is one transaction.                   *)

Connections == {1, 2}

SharedStorages == {st \in Storages : st.rows = << >> /\ ~st.readonly}

InitConcurrent ==
  /\ db \in SharedStorages
  /\ op = [c \in Connections |-> "tableExists"]
  /\ arg = [c \in Connections |-> << >>]
  /\ out = [c \in Connections |-> << >>]

\* SELECT name FROM sqlite_master WHERE type='table' AND name='areas_fts'
TableExists(c) ==
  /\ op[c] = "tableExists"
  /\ op' = [op EXCEPT ![c] = IF db.hasTable THEN "count" ELSE "create"]
  /\ UNCHANGED << db, arg, out >>

\* CREATE VIRTUAL TABLE IF NOT EXISTS areas_fts
CreateTable(c) ==
  /\ op[c] = "create"
  /\ db' = [db EXCEPT !.hasTable = TRUE]
  /\ op' = [op EXCEPT ![c] = "count"]
  /\ UNCHANGED << arg, out >>

\* SELECT COUNT(*) as count FROM areas_fts
CountEntries(c) ==
  /\ op[c] = "count"
  /\ op' = [op EXCEPT ![c] = IF Len(db.fts) = 0 THEN "select" ELSE "ready"]
  /\ UNCHANGED << db, arg, out >>

\* populateFTSIndex: SELECT id, name, names, postal_code FROM areas
SelectAreas(c) ==
  /\ op[c] = "select"
  /\ arg' = [arg EXCEPT ![c] = db.areas]
  /\ op' = [op EXCEPT ![c] = "insert"]
  /\ UNCHANGED << db, out >>

\* populateFTSIndex: insertMany(), then hasFTS = true
InsertMany(c) ==
  /\ op[c] = "insert"
  /\ db' = [db EXCEPT !.fts = @ \o populateFTSIndex(arg[c])]
  /\ op' = [op EXCEPT ![c] = "ready"]
  /\ UNCHANGED << arg, out >>

\* a later search through the instance of the connection
SearchLater(c) ==
  /\ op[c] = "ready"
  /\ op' = [op EXCEPT ![c] = "searched"]
  /\ out' = [out EXCEPT ![c] =
               search([areas |-> db.areas, fts |-> db.fts, hasFTS |-> TRUE],
                      Kallio, MaxResults, "", FALSE, Pt(0, 0), Zero)]
  /\ UNCHANGED << db, arg >>

NextConcurrent ==
  \E c \in Connections :
    \/ TableExists(c)
    \/ CreateTable(c)
    \/ CountEntries(c)
    \/ SelectAreas(c)
    \/ InsertMany(c)
    \/ SearchLater(c)

SpecConcurrent == InitConcurrent /\ [][NextConcurrent]_vars

\* C28: when both instances are initialised, the search index holds
\* exactly one entry per area row, and a later search returns no area
\* twice.
C28_OneEntryPerRowAfterRace ==
  /\ (\A c \in Connections : op[c] \in {"ready", "searched"})
       => /\ Len(db.fts) = Len(db.areas)
          /\ \A i \in 1..Len(db.areas) :
               entriesFor([k \in 1..Len(db.fts) |-> db.fts[k].area_id],
                          db.areas[i].id) = 1
  /\ \A c \in Connections :
       op[c] = "searched" =>
         \A i, j \in 1..Len(out[c]) : out[c][i].id = out[c][j].id => i = j

----------------------------------------------------------------------------
(* The combined score of a name-plus-postal query *)

\* nameScoreVal and postalScoreVal of the call of calculateTextScore
nameScoreOfCall ==
  bestNameScore(queryForName(parseQuery(arg.query)), arg.row.names,
                fuzzyScore(queryForName(parseQuery(arg.query)), arg.row.name))

postalScoreOfCall == postalScoreOf(parseQuery(arg.query), arg.row)

\* a name-plus-postal query against a row that matches both fragments
bothMatch(parsed, nameScoreVal, postalScoreVal) ==
  /\ parsed.namePart # << >> /\ parsed.postalPart # << >>
  /\ RatLess(Rat(1, 2), nameScoreVal)
  /\ RatLess(Rat(1, 2), postalScoreVal)

\* |a - b| <= d
withinOf(a, b, d) == RatLeq(RatSub(RatMax(a, b), RatMin(a, b)), d)

\* C29 as stated: for a combined query, a row with nameScore > 0.5 and
\* postalScore > 0.5 gets a text score not lower than max(nameScore,
\* postalScore).
C29_BothMatchNotBelowMax ==
  (op = "textScore"
     /\ bothMatch(parseQuery(arg.query), nameScoreOfCall, postalScoreOfCall))
    => RatLeq(RatMax(nameScoreOfCall, postalScoreOfCall), out.score)

\* C29: for a combined query, a row with nameScore > 0.5 and postalScore >
\* 0.5 that differ by at most 0.4 gets a text score not lower than
\* max(nameScore, postalScore).
C29_BothMatchCloseNotBelowMax ==
  (op = "textScore"
     /\ bothMatch(parseQuery(arg.query), nameScoreOfCall, postalScoreOfCall)
     /\ withinOf(nameScoreOfCall, postalScoreOfCall, Rat(4, 10)))
    => RatLeq(RatMax(nameScoreOfCall, postalScoreOfCall), out.score)

\* both fragments match with different scores and the boost stays below 1
C29_Witness ==
  /\ op = "textScore"
  /\ bothMatch(parseQuery(arg.query), nameScoreOfCall, postalScoreOfCall)
  /\ withinOf(nameScoreOfCall, postalScoreOfCall, Rat(4, 10))
  /\ nameScoreOfCall # postalScoreOfCall
  /\ RatLess(out.score, One)

----------------------------------------------------------------------------
(* findAdjacentAreas where the radius holds more rows than limit * 3: the  *)
(* stored tables have MaxRows + 1 or MaxRows + 2 rows.                     *)

\* the point areas around the reference point
CrowdedRows == {1, 2, 3, 4, 5, 8, 9, 10, 12, 14}

CrowdedDatabases ==
  LET sets == {S \in SUBSET CrowdedRows :
                 Cardinality(S) \in {MaxRows + 1, MaxRows + 2}}
  IN  {AscSeq(S) : S \in sets} \cup {Reverse(AscSeq(S)) : S \in sets}

InitCrowded ==
  /\ db \in CrowdedDatabases
  /\ op = "init"
  /\ arg = NoArg
  /\ out = NoOut

NextCrowded == AdjacentCall \/ Respond

SpecCrowded == InitCrowded /\ [][NextCrowded]_vars

\* the rows that pass the distance filter of findAreasNearby around the
\* center, before the cut
uncutNearby == nearbyResults(db, out.center.center, arg.radius)

\* a row of another area than the center in the sector of the entry
competes(row, entry) ==
  /\ ~isCenterItself(row, out.center)
  /\ sectorOf(out.center, row) = entry.degrees

\* C30: for every returned entry with level 1 in a sector, no other area
\* different from the center that passes the Nearby distance filter and
\* snaps to that sector has a strictly smaller distance_meters.
C30_CutKeepsNearestInSector ==
  (op = "adjacent" /\ out.found) =>
    \A k \in 1..Len(out.adjacent) :
      out.adjacent[k].level = 1 =>
        \A i \in 1..Len(uncutNearby) :
          competes(uncutNearby[i], out.adjacent[k])
            => uncutNearby[i].distance_meters
                 >= out.adjacent[k].distance_meters

\* the cut has dropped rows, among them a farther area of the sector of a
\* returned level-1 entry
C30_Witness ==
  /\ op = "adjacent"
  /\ out.found
  /\ Len(uncutNearby) > arg.limit * AdjacentRawFactor
  /\ \E k \in 1..Len(out.adjacent) :
       /\ out.adjacent[k].level = 1
       /\ \E i \in 1..Len(uncutNearby) :
            /\ competes(uncutNearby[i], out.adjacent[k])
            /\ uncutNearby[i].distance_meters
                 > out.adjacent[k].distance_meters
            /\ \A j \in 1..Len(out.adjacent) :
                 out.adjacent[j].osm_id # uncutNearby[i].osm_id

====
